---- MODULE Spec2Model ----
(***************************************************************************)
(* Bar-driven backtesting core of a0a7/playground (src/algotrading).       *)
(*                                                                         *)
(* One bar of a run is one action: the feeds advance, the broker settles   *)
(* the orders submitted on the previous bar (cash check at the price the   *)
(* order was created with, execution at the new bar's opening price),      *)
(* the strategy is notified, the strategy's next() runs and submits        *)
(* orders, and the analyzer's next() records the portfolio value.          *)
(*                                                                         *)
(* Money is counted in thousandths of the currency unit (Mill), so that    *)
(* the 0.1% commission of the engine is exact in integers.  Prices and     *)
(* sizes are integers.  Ratios (momentum scores, drawdowns, metrics) are   *)
(* compared by cross-multiplication or kept as <<numerator, denominator>>. *)
(***************************************************************************)
EXTENDS Integers, Sequences, FiniteSets, TLC

\* ------------------------------------------------------------------ bounds

MaxBars == 14          \* bars of a rotation run
MaxBarsHold == 4       \* bars of a buy-and-hold run
MaxBarsB == 16         \* bars of a Scenario B run
MaxBarsSignal == 6     \* bars of a run of an indicator strategy
MaxTrades == 4         \* closed trades of an analyzer run
MaxBarsPortfolio == 5   \* bars of a run over several feeds
MaxAdded == 2          \* feeds, and strategies, added to one engine
MaxRuns == 3           \* runs collected for one comparison
InitialCash == 100     \* BacktestEngine.initial_cash, in currency units

Prices == {10, 11, 12}      \* closes a bar can carry
OpenPrices == {10, 12}      \* opening prices a bar can carry
ScenarioPrices == {9, 10, 11, 12}   \* closes of a Scenario B run
UniversePrices == {10, 11}  \* closes of a run of a universe strategy
TradePnls == {-100, 0, 100, 200}    \* net results of a closed trade
DataOrder == <<"A", "B">>   \* self.datas, in feed order

\* ------------------------------------------------------- program constants

HistoryMargin == 10        \* len(d) < lookback + 10
CommissionPerMille == 1    \* commission=0.001
DeadbandTenths == 1        \* > 0.10 and target_size * 0.1
Mill == 1000               \* money unit: 1/1000 of the currency unit

\* MultiStrategyPortfolio.params rsi_oversold, rsi_overbought, and the RSI
\* readings that are explored: one below, one between, one above
RsiOversold == 30
RsiOverbought == 70
RsiNeutral == 50
RsiLevels == {25, RsiNeutral, 75}

Datas == {DataOrder[i] : i \in 1..Len(DataOrder)}
RotationKinds == {"momentum_ma", "momentum", "dual", "buyhold"}
SignalKinds == {"sma", "macd", "universe", "simple_ma"}
DataLast == DataOrder[Len(DataOrder)]   \* the feed added last
None == <<>>               \* cerebro and results hold None, or <<value>>
Data0 == DataOrder[1]      \* self.data of a single-feed strategy

VARIABLES
    cfg,            \* the strategy class (kind) and its params
    pc,             \* "run" | "done" (after Analyzer.stop)
    bar,            \* len(d): bars delivered so far
    hist,           \* hist[d]: the last closes of d, newest last
    cash,           \* broker cash, in Mill
    pos,            \* pos[d]: position size
    tr,             \* tr[d]: the open trade of d: [gross, comm] cash spent so far
    value,          \* broker.getvalue() as of this bar, in Mill
    submitted,      \* orders submitted by next() on this bar, in submission order
    pending_orders, \* broker.pending: accepted orders not yet executed
    notified,       \* the order notifications delivered on this bar: [data, status]
    day_counter,    \* rotation strategies
    rebalance_day,
    rebalanced,     \* BuyAndHoldUniverse.rebalanced
    top_assets,     \* the target set computed by the last rebalance
    did_rebalance,  \* this bar's next() went past the schedule check
    order,          \* BaseStrategy.order is set (an order is pending)
    buy_price,      \* BaseStrategy.buy_price, 0 for None
    orders,         \* orders[d] is set (universe strategies)
    buy_prices,     \* buy_prices[d], 0 for None (universe strategies)
    nzd,            \* nzd[d]: sign of CrossOver's NonZeroDifference line
    crossover,      \* crossover[d]: the CrossOver line, 0 while not yet valid
    rsi,            \* MultiStrategyPortfolio.rsi[0]
    macd,           \* sign of MultiStrategyPortfolio's macd.macd[0] - macd.signal[0]
    start_value,    \* PerformanceAnalyzer
    end_value,
    pnl,
    trades,
    drawdown,
    peak,
    results_list,   \* the run outputs collected for a comparison: [start_value, end_value]
    strategy_names, \* the labels collected for a comparison
    comparison,     \* the rows compare_strategies returned
    cerebro,        \* BacktestEngine.cerebro: None, or the feeds and strategies added
    results,        \* BacktestEngine.results: None, or the strategies that were run
    called,         \* the method of BacktestEngine called last
    raised          \* the exception that call raised, "" for none

rotation_vars == <<day_counter, rebalance_day, rebalanced, top_assets, did_rebalance>>

signal_vars == <<order, buy_price, orders, buy_prices, nzd, crossover, rsi, macd>>

compare_vars == <<results_list, strategy_names, comparison>>

engine_vars == <<cerebro, results, called, raised>>

vars == <<cfg, pc, bar, hist, cash, pos, tr, value, submitted, pending_orders, notified, rotation_vars,
          signal_vars, start_value, end_value, pnl, trades, drawdown, peak, compare_vars,
          engine_vars>>

\* ----------------------------------------------------------------- helpers

Abs(x) == IF x < 0 THEN -x ELSE x

Max2(a, b) == IF a > b THEN a ELSE b

RECURSIVE SumSeq(_)
SumSeq(s) == IF s = <<>> THEN 0 ELSE Head(s) + SumSeq(Tail(s))

RECURSIVE SumOver(_, _)
SumOver(f, S) ==
    IF S = {} THEN 0
    ELSE LET x == CHOOSE y \in S : TRUE IN f[x] + SumOver(f, S \ {x})

\* int(a / b) of Python for a >= 0, b > 0
FloorDiv(a, b) == a \div b

\* the closes kept per feed: enough for the indicators of the run
Window == cfg.window

PushClose(h, c) ==
    IF Len(h) < Window THEN Append(h, c) ELSE Append(Tail(h), c)

\* d.close[-k] for k = 0, 1, ...
CloseAgo(h, k) == h[Len(h) - k]

Close(d) == CloseAgo(hist[d], 0)

\* ------------------------------------------------------------------ broker
\* The broker is backtrader's default BackBroker as BacktestEngine.setup_cerebro
\* configures it: cash and a percentage commission, no cheat-on-close, orders
\* checked on submission (checksubmit) and market orders executed on the bar
\* after the one that created them, at that bar's opening price.

Order(d, size, price) == [data |-> d, size |-> size, price |-> price]

Commission(size, price) == Abs(size) * price * cfg.commission

\* the part of an order of `size` that closes an existing position `p`
ClosedPart(p, size) ==
    IF p > 0 /\ size < 0 THEN -(IF p < -size THEN p ELSE -size)
    ELSE IF p < 0 /\ size > 0 THEN (IF -p < size THEN -p ELSE size)
    ELSE 0

\* cash after executing `size` at `price`
CashAfter(c, size, price) == c - size * price * Mill - Commission(size, price)

\* check_submitted: the orders of the previous bar are pseudo-executed in
\* submission order at their created price against one running cash figure;
\* an order that leaves it negative is rejected with Margin.
RECURSIVE CheckSubmitted(_, _, _, _)
CheckSubmitted(queue, c, accepted, notes) ==
    IF queue = <<>> THEN [accepted |-> accepted, notes |-> notes]
    ELSE LET o == Head(queue)
             c2 == CashAfter(c, o.size, o.price)
         IN IF c2 >= 0
            THEN CheckSubmitted(Tail(queue), c2, Append(accepted, o), notes)
            ELSE CheckSubmitted(Tail(queue), c2, accepted,
                     Append(notes, [data |-> o.data, status |-> "Margin",
                                    isbuy |-> o.size > 0, price |-> 0]))

\* the opening price of a feed that has no bar to execute an order on
NoFill == 0

\* _try_exec_market and _execute with ago=0: one accepted order at the opening
\* price `px[o.data]`; an order whose feed has no bar after its creation cannot
\* execute and stays pending.
\* b = [cash, pos, tr, notes, closed, carried]
ExecuteOrder(b, o, px) ==
    IF px[o.data] = NoFill THEN [b EXCEPT !.carried = Append(@, o)] ELSE
    LET d == o.data
        p == px[d]
        closed == ClosedPart(b.pos[d], o.size)
        opened == o.size - closed
        c1 == CashAfter(b.cash, closed, p)
        c2 == CashAfter(c1, opened, p)
        fails == opened # 0 /\ c2 < 0
        exec == IF fails THEN closed ELSE o.size
        newpos == b.pos[d] + exec
        t == [gross |-> b.tr[d].gross + exec * p * Mill,
              comm |-> b.tr[d].comm + Commission(exec, p)]
        isclosed == b.pos[d] # 0 /\ newpos = 0
    IN [cash |-> IF fails THEN c1 ELSE c2,
        pos |-> [b.pos EXCEPT ![d] = newpos],
        tr |-> [b.tr EXCEPT ![d] = IF isclosed THEN [gross |-> 0, comm |-> 0] ELSE t],
        notes |-> Append(b.notes,
                    [data |-> d, status |-> IF fails THEN "Margin" ELSE "Completed",
                     isbuy |-> o.size > 0, price |-> p]),
        closed |-> IF isclosed
                   THEN Append(b.closed, [data |-> d, pnl |-> -t.gross,
                                          pnlcomm |-> -t.gross - t.comm])
                   ELSE b.closed,
        carried |-> b.carried]

RECURSIVE ExecuteAll(_, _, _)
ExecuteAll(b, queue, px) ==
    IF queue = <<>> THEN b
    ELSE ExecuteAll(ExecuteOrder(b, Head(queue), px), Tail(queue), px)

\* broker.next() from cash c, positions p, open trades t, at the opening
\* prices px: the newly submitted `queue` is checked, then the orders `held`
\* from earlier bars and the accepted ones are tried in order:
\* [cash, pos, tr, notes, closed, carried]
BrokerRun(held, queue, c, p, t, px) ==
    LET chk == CheckSubmitted(queue, c, <<>>, <<>>)
    IN ExecuteAll([cash |-> c, pos |-> p, tr |-> t,
                   notes |-> chk.notes, closed |-> <<>>, carried |-> <<>>],
                  held \o chk.accepted, px)

BrokerSettle(queue, c, p, t, px) == BrokerRun(<<>>, queue, c, p, t, px)

BrokerNext(px) == BrokerRun(pending_orders, submitted, cash, pos, tr, px)

\* a value that leaves the positions out
CashOnly(c, p, h) == c

\* _get_value: cash plus every position at the bar's close
GetValue(c, p, h) ==
    c + SumOver([d \in Datas |-> p[d] * CloseAgo(h[d], 0) * Mill], Datas)

\* -------------------------------------------------------------- indicators

\* bt.ind.SMA(period=n), times n: the sum of the last n closes
SmaSum(h, n) == SumSeq(SubSeq(h, Len(h) - n + 1, Len(h)))

\* bt.ind.ROC(period=lookback) as <<c0 - cL, cL>>, i.e. (c0 - cL) / cL
Roc(h) == <<CloseAgo(h, 0) - CloseAgo(h, cfg.lookback), CloseAgo(h, cfg.lookback)>>

\* score of a > score of b (denominators are prices, positive)
RocGreater(a, b) == a[1] * b[2] > b[1] * a[2]

\* ------------------------------------------------------- rotation strategies

UseMaFilter(kind) == kind = "momentum_ma"

\* MomentumRotationStrategy.next: the filters before `rankings.append`
MomentumEligible(kind, h, n) ==
    /\ ~(n < cfg.lookback + HistoryMargin)
    /\ UseMaFilter(kind) =>
         /\ ~(n < cfg.ma_period)
         /\ ~(CloseAgo(h, 0) * cfg.ma_period < SmaSum(h, cfg.ma_period))

\* DualMomentumStrategy.next: the filters before `positive_momentum.append`
DualEligible(h, n) ==
    /\ ~(n < cfg.lookback + HistoryMargin)
    /\ Roc(h)[1] > 0

\* list.sort(key=score, reverse=True): stable, equal scores keep their order
\* a sort that is not stable: an equal score goes in front
RECURSIVE InsertDescUnstable(_, _, _)
InsertDescUnstable(x, sorted, h) ==
    IF sorted = <<>> THEN <<x>>
    ELSE IF ~RocGreater(Roc(h[Head(sorted)]), Roc(h[x]))
         THEN <<x>> \o sorted
         ELSE <<Head(sorted)>> \o InsertDescUnstable(x, Tail(sorted), h)

RECURSIVE InsertDesc(_, _, _)
InsertDesc(x, sorted, h) ==
    IF sorted = <<>> THEN <<x>>
    ELSE IF RocGreater(Roc(h[x]), Roc(h[Head(sorted)]))
         THEN <<x>> \o sorted
         ELSE <<Head(sorted)>> \o InsertDesc(x, Tail(sorted), h)

RECURSIVE SortDescFrom(_, _, _)
SortDescFrom(rest, sorted, h) ==
    IF rest = <<>> THEN sorted
    ELSE SortDescFrom(Tail(rest), InsertDesc(Head(rest), sorted, h), h)

SortDesc(seq, h) == SortDescFrom(seq, <<>>, h)

\* the eligible feeds, in feed order
RECURSIVE FilterSeq(_, _)
FilterSeq(seq, keep) ==
    IF seq = <<>> THEN <<>>
    ELSE (IF Head(seq) \in keep THEN <<Head(seq)>> ELSE <<>>)
         \o FilterSeq(Tail(seq), keep)

Rankings(kind, h, n) ==
    LET ok == {d \in Datas :
                 IF kind = "dual" THEN DualEligible(h[d], n)
                 ELSE MomentumEligible(kind, h[d], n)}
    IN SortDesc(FilterSeq(DataOrder, ok), h)

\* the wrong end of the ranking: rankings[-top_n:]
TopAssetsLast(rankings, top_n) ==
    {rankings[i] : i \in {j \in 1..Len(rankings) : j > Len(rankings) - top_n}}

\* set([d for d, score, name in rankings[:top_n]]); a negative top_n makes
\* the slice leave out the last -top_n entries
TopAssets(rankings, top_n) ==
    {rankings[i] : i \in {j \in 1..Len(rankings) :
        j <= IF top_n >= 0 THEN top_n ELSE Len(rankings) + top_n}}

\* the closing loop with the membership test inverted
RECURSIVE CloseOrdersInverted(_, _, _, _)
CloseOrdersInverted(seq, top, p, h) ==
    IF seq = <<>> THEN <<>>
    ELSE LET d == Head(seq)
         IN (IF p[d] # 0 /\ d \in top
             THEN <<Order(d, -p[d], CloseAgo(h[d], 0))>> ELSE <<>>)
            \o CloseOrdersInverted(Tail(seq), top, p, h)

\* "for d in self.datas: if pos and d not in top_assets: self.close(data=d)"
RECURSIVE CloseOrders(_, _, _, _)
CloseOrders(seq, top, p, h) ==
    IF seq = <<>> THEN <<>>
    ELSE LET d == Head(seq)
         IN (IF p[d] # 0 /\ d \notin top
             THEN <<Order(d, -p[d], CloseAgo(h[d], 0))>> ELSE <<>>)
            \o CloseOrders(Tail(seq), top, p, h)

\* int(target_value / d.close[0]) with target_value = getvalue() * (1.0 / n)
TargetSize(v, n, close) == FloorDiv(v, n * close * Mill)

\* abs(current_value - target_value) / target_value > 0.10
OffTarget(size, close, v, n) ==
    10 * Abs(n * size * close * Mill - v) > DeadbandTenths * v

\* MomentumRotationStrategy.next, body of "for d in top_assets"
MomentumOrder(d, top, p, h, v) ==
    LET n == Cardinality(top)
        close == CloseAgo(h[d], 0)
        target_size == TargetSize(v, n, close)
        delta == target_size - p[d]
    IN IF OffTarget(p[d], close, v, n) /\ target_size > 0
       THEN IF p[d] # 0
            THEN IF delta # 0 THEN <<Order(d, delta, close)>> ELSE <<>>
            ELSE <<Order(d, target_size, close)>>
       ELSE <<>>

\* abs(delta) > target_size * 0.1
DualOffTarget(delta, target_size) == 10 * Abs(delta) > DeadbandTenths * target_size

\* the target loop with the weight 1 / top_n instead of 1 / len(top_assets)
DualOrderByTopN(d, top, p, h, v) ==
    LET n == cfg.top_n
        close == CloseAgo(h[d], 0)
        target_size == TargetSize(v, n, close)
        delta == target_size - p[d]
    IN IF target_size > 0
       THEN IF p[d] # 0
            THEN IF DualOffTarget(delta, target_size)
                 THEN <<Order(d, delta, close)>> ELSE <<>>
            ELSE <<Order(d, target_size, close)>>
       ELSE <<>>

\* DualMomentumStrategy.next, body of "for d in top_assets"
DualOrder(d, top, p, h, v) ==
    LET n == Cardinality(top)
        close == CloseAgo(h[d], 0)
        target_size == TargetSize(v, n, close)
        delta == target_size - p[d]
    IN IF target_size > 0
       THEN IF p[d] # 0
            THEN IF DualOffTarget(delta, target_size)
                 THEN <<Order(d, delta, close)>> ELSE <<>>
            ELSE <<Order(d, target_size, close)>>
       ELSE <<>>

RECURSIVE TargetOrders(_, _, _, _, _, _)
TargetOrders(kind, iter, top, p, h, v) ==
    IF iter = <<>> THEN <<>>
    ELSE (IF kind = "dual" THEN DualOrder(Head(iter), top, p, h, v)
          ELSE MomentumOrder(Head(iter), top, p, h, v))
         \o TargetOrders(kind, Tail(iter), top, p, h, v)

\* a rebalance that closes every held instrument before the target loop
RebalanceOrdersCloseAll(kind, iter, top, p, h, v) ==
    CloseOrders(DataOrder, {}, p, h) \o TargetOrders(kind, iter, top, p, h, v)

\* the orders of one rebalance: the closes, then the target loop in `iter`
RebalanceOrders(kind, iter, top, p, h, v) ==
    CloseOrders(DataOrder, top, p, h) \o TargetOrders(kind, iter, top, p, h, v)

\* the orders in which "for d in top_assets" can visit a set of feed objects
\* (a Python set of objects hashed by identity: any order)
Iterations(S) ==
    {f \in [1..Cardinality(S) -> S] : \A i, j \in 1..Cardinality(S) : i # j => f[i] # f[j]}

\* BuyAndHoldUniverse.next, "for d in self.datas"
RECURSIVE BuyHoldOrders(_, _, _)
BuyHoldOrders(seq, h, v) ==
    IF seq = <<>> THEN <<>>
    ELSE LET d == Head(seq)
             close == CloseAgo(h[d], 0)
             target_size == TargetSize(v, Len(DataOrder), close)
         IN (IF target_size > 0 THEN <<Order(d, target_size, close)>> ELSE <<>>)
            \o BuyHoldOrders(Tail(seq), h, v)

\* ---------------------------------------------------- indicator strategies
\* strategies.py and universe_strategy.py.  Percentages are whole percents:
\* stop_loss = 5 is stop_loss=0.05.

Sign(x) == IF x > 0 THEN 1 ELSE IF x < 0 THEN -1 ELSE 0

\* sign of sma_fast[0] - sma_slow[0]
SmaDiff(h) == Sign(SmaSum(h, cfg.fast) * cfg.slow - SmaSum(h, cfg.slow) * cfg.fast)

\* bt.ind.CrossOver keeps a NonZeroDifference line: seeded with the first
\* difference of the two averages, then the difference if it is not zero and
\* the previous nzd otherwise.  z is nzd[-1], n is len(d).
Nzd(h, n, z) ==
    IF n < cfg.slow THEN 0
    ELSE IF n = cfg.slow THEN SmaDiff(h)
    ELSE IF SmaDiff(h) # 0 THEN SmaDiff(h) ELSE z

\* bt.ind.CrossOver: +1 when nzd[-1] < 0 and fast > slow, -1 when nzd[-1] > 0
\* and fast < slow; not a number (compares false, here 0) before slow + 1 bars
CrossOver(h, n, z) ==
    IF n <= cfg.slow THEN 0
    ELSE (IF z < 0 /\ SmaDiff(h) > 0 THEN 1 ELSE 0)
         - (IF z > 0 /\ SmaDiff(h) < 0 THEN 1 ELSE 0)

\* a comparison with the average of whatever closes there are
AboveMaEarly(h, n) == CloseAgo(h, 0) * Len(h) > SumSeq(h)

\* d.close[0] > self.ma_200[d][0]; false while the average is not a number
AboveMa(h, n) ==
    /\ n >= cfg.ma_period
    /\ CloseAgo(h, 0) * cfg.ma_period > SmaSum(h, cfg.ma_period)

\* d.close[-1] <= self.ma_200[d][-1]
PrevAtOrBelowMa(h, n) ==
    /\ n - 1 >= cfg.ma_period
    /\ CloseAgo(h, 1) * cfg.ma_period <= SmaSum(SubSeq(h, 1, Len(h) - 1), cfg.ma_period)

\* a sizing that never goes below one share
GetPositionSizeAtLeastOne(v, close) ==
    Max2(1, FloorDiv(v * cfg.max_position_size, 100 * close * Mill))

\* BaseStrategy.get_position_size / get_position_size_for_data
GetPositionSize(v, close) == FloorDiv(v * cfg.max_position_size, 100 * close * Mill)

\* price and (close / price - 1) <= -stop_loss
StopLoss(close, price) ==
    price # 0 /\ 100 * close <= (100 - cfg.stop_loss) * price

\* price and (close / price - 1) >= take_profit
TakeProfit(close, price) ==
    price # 0 /\ 100 * close >= (100 + cfg.take_profit) * price

\* BaseStrategy.notify_order over the broker's notifications of this bar:
\* buy_price becomes the executed price of a completed buy
RECURSIVE NotifyOrder(_, _)
NotifyOrder(bp, notes) ==
    IF notes = <<>> THEN bp
    ELSE NotifyOrder(IF Head(notes).status = "Completed" /\ Head(notes).isbuy
                     THEN Head(notes).price ELSE bp,
                     Tail(notes))

\* a notify_order that clears orders[d] for completed orders only
RECURSIVE NotifyOrdersCompleted(_, _)
NotifyOrdersCompleted(ords, notes) ==
    IF notes = <<>> THEN ords
    ELSE NotifyOrdersCompleted(IF Head(notes).status = "Completed"
                               THEN [ords EXCEPT ![Head(notes).data] = FALSE] ELSE ords,
                               Tail(notes))

\* UniverseRotationStrategy.notify_order: orders[d] is cleared for the feed of
\* every notified order
RECURSIVE NotifyOrders(_, _)
NotifyOrders(ords, notes) ==
    IF notes = <<>> THEN ords
    ELSE NotifyOrders([ords EXCEPT ![Head(notes).data] = FALSE], Tail(notes))

\* a close that sells one more than is held
CloseOneMore(d, p, close) == Order(d, -(p + 1), close)

\* self.close(): a market sell of the whole position
ClosePosition(d, p, close) == Order(d, -p, close)

\* SMACrossover.next / MACDStrategy.next: the orders it submits
SignalNext(pending, cross, p, close, v, bp) ==
    IF pending THEN <<>>
    ELSE IF p = 0
         THEN IF cross > 0 /\ GetPositionSize(v, close) > 0
              THEN <<Order(Data0, GetPositionSize(v, close), close)>>
              ELSE <<>>
         ELSE IF cross < 0 THEN <<ClosePosition(Data0, p, close)>>
         ELSE IF StopLoss(close, bp) THEN <<ClosePosition(Data0, p, close)>>
         ELSE IF TakeProfit(close, bp) THEN <<ClosePosition(Data0, p, close)>>
         ELSE <<>>

\* a buy that records no entry price
BoughtUnpriced(st, d, size, close) ==
    [submitted |-> Append(st.submitted, Order(d, size, close)),
     orders |-> [st.orders EXCEPT ![d] = TRUE],
     buy_prices |-> st.buy_prices]

\* the state a universe strategy's next() threads through its loop over the
\* feeds: the orders submitted so far, orders[d] and buy_prices[d]
Bought(st, d, size, close) ==
    [submitted |-> Append(st.submitted, Order(d, size, close)),
     orders |-> [st.orders EXCEPT ![d] = TRUE],
     buy_prices |-> [st.buy_prices EXCEPT ![d] = close]]

Sold(st, d, p, close) ==
    [submitted |-> Append(st.submitted, ClosePosition(d, p, close)),
     orders |-> [st.orders EXCEPT ![d] = TRUE],
     buy_prices |-> [st.buy_prices EXCEPT ![d] = 0]]

\* UniverseRotationStrategy.next, body of "for i, d in enumerate(self.datas)"
UniverseFeed(d, st, p, h, v, cross, n) ==
    LET close == CloseAgo(h[d], 0)
        above_ma_200 == AboveMa(h[d], n)
        size == GetPositionSize(v, close)
        sell == \/ cross[d] < 0
                \/ ~above_ma_200
                \/ StopLoss(close, st.buy_prices[d])
                \/ TakeProfit(close, st.buy_prices[d])
    IN IF st.orders[d] THEN st
       ELSE IF p[d] = 0
            THEN IF cross[d] > 0 /\ above_ma_200 /\ size > 0
                 THEN Bought(st, d, size, close) ELSE st
            ELSE IF sell THEN Sold(st, d, p[d], close) ELSE st

\* SimpleMAFilterStrategy.next, body of "for d in self.datas"
SimpleMAFeed(d, st, p, h, v, cross, n) ==
    LET close == CloseAgo(h[d], 0)
        above_ma == AboveMa(h[d], n)
        size == GetPositionSize(v, close)
        sell == \/ ~above_ma
                \/ StopLoss(close, st.buy_prices[d])
                \/ TakeProfit(close, st.buy_prices[d])
    IN IF st.orders[d] THEN st
       ELSE IF p[d] = 0
            THEN IF above_ma /\ PrevAtOrBelowMa(h[d], n) /\ size > 0
                 THEN Bought(st, d, size, close) ELSE st
            ELSE IF sell THEN Sold(st, d, p[d], close) ELSE st

RECURSIVE UniverseNext(_, _, _, _, _, _, _)
UniverseNext(seq, st, p, h, v, cross, n) ==
    IF seq = <<>> THEN st
    ELSE UniverseNext(Tail(seq),
             IF cfg.kind = "universe"
             THEN UniverseFeed(Head(seq), st, p, h, v, cross, n)
             ELSE SimpleMAFeed(Head(seq), st, p, h, v, cross, n),
             p, h, v, cross, n)

\* ---------------------------------------------------------------- analyzer

\* PerformanceAnalyzer.notify_trade for the trades the broker just closed
RECURSIVE NotifyTrades(_, _)
NotifyTrades(ts, closed) ==
    IF closed = <<>> THEN ts
    ELSE NotifyTrades(Append(ts, [pnl |-> Head(closed).pnl,
                                  pnlcomm |-> Head(closed).pnlcomm]),
                      Tail(closed))

\* a next() that takes the drawdown against the peak before this bar
AnalyzerNextStalePeak(v) ==
    /\ pnl' = Append(pnl, v - start_value)
    /\ peak' = IF v > peak THEN v ELSE peak
    /\ drawdown' = Append(drawdown, <<peak - v, peak>>)

\* PerformanceAnalyzer.next
AnalyzerNext(v) ==
    LET newpeak == IF v > peak THEN v ELSE peak
    IN /\ pnl' = Append(pnl, v - start_value)
       /\ peak' = newpeak
       /\ drawdown' = Append(drawdown, <<newpeak - v, newpeak>>)

\* ------------------------------------------------------------ get_analysis
\* Metrics are <<numerator, denominator>>; 0 is <<0, 1>>.

Zero == <<0, 1>>

RECURSIVE Select(_, _)
Select(ts, win) ==
    IF ts = <<>> THEN <<>>
    ELSE (IF (Head(ts).pnlcomm > 0) = win THEN <<Head(ts)>> ELSE <<>>)
         \o Select(Tail(ts), win)

RECURSIVE SumPnl(_)
SumPnl(ts) == IF ts = <<>> THEN 0 ELSE Head(ts).pnlcomm + SumPnl(Tail(ts))

\* the trades with a negative net result only
RECURSIVE LosingTradesStrict(_)
LosingTradesStrict(ts) ==
    IF ts = <<>> THEN <<>>
    ELSE (IF Head(ts).pnlcomm < 0 THEN <<Head(ts)>> ELSE <<>>)
         \o LosingTradesStrict(Tail(ts))

\* [t for t in self.trades if t['pnlcomm'] > 0] and ... <= 0
WinningTrades(ts) == Select(ts, TRUE)
LosingTrades(ts) == Select(ts, FALSE)

\* a win rate that counts the trades whose gross pnl is not negative
WinRateGross(ts) ==
    IF Len(ts) > 0
    THEN <<Cardinality({i \in 1..Len(ts) : ts[i].pnl >= 0}), Len(ts)>> ELSE Zero

WinRate(ts) ==
    IF Len(ts) > 0 THEN <<Len(WinningTrades(ts)), Len(ts)>> ELSE Zero

AvgWin(ts) ==
    IF WinningTrades(ts) # <<>>
    THEN <<SumPnl(WinningTrades(ts)), Len(WinningTrades(ts))>> ELSE Zero

\* the mean of the losing trades without the guard for an empty subset
AvgLossUnguarded(ts) == <<SumPnl(LosingTrades(ts)), Len(LosingTrades(ts))>>

AvgLoss(ts) ==
    IF LosingTrades(ts) # <<>>
    THEN <<SumPnl(LosingTrades(ts)), Len(LosingTrades(ts))>> ELSE Zero

\* the quotient without the guard for a losing sum of zero
ProfitFactorUnguarded(ts) ==
    IF LosingTrades(ts) # <<>>
    THEN <<SumPnl(WinningTrades(ts)), Abs(SumPnl(LosingTrades(ts)))>>
    ELSE Zero

ProfitFactor(ts) ==
    IF LosingTrades(ts) # <<>> /\ SumPnl(LosingTrades(ts)) # 0
    THEN <<SumPnl(WinningTrades(ts)), Abs(SumPnl(LosingTrades(ts)))>>
    ELSE Zero

\* a < b for fractions with numerators >= 0 and denominators > 0, compared by
\* their continued fractions (no product of two money amounts is formed)
RECURSIVE FracLess(_, _)
FracLess(a, b) ==
    LET qa == a[1] \div a[2]
        qb == b[1] \div b[2]
        ra == a[1] % a[2]
        rb == b[1] % b[2]
    IN IF qa # qb THEN qa < qb
       ELSE IF rb = 0 THEN FALSE
       ELSE IF ra = 0 THEN TRUE
       ELSE FracLess(<<b[2], rb>>, <<a[2], ra>>)

RECURSIVE MaxFrac(_)
MaxFrac(s) ==
    IF Len(s) = 1 THEN s[1]
    ELSE LET m == MaxFrac(Tail(s))
         IN IF FracLess(s[1], m) THEN m ELSE s[1]

\* the drawdown of the last step instead of the largest one
MaxDrawdownLast(dd) == IF dd # <<>> THEN dd[Len(dd)] ELSE Zero

\* max(self.drawdown) if self.drawdown else 0
MaxDrawdown(dd) == IF dd # <<>> THEN MaxFrac(dd) ELSE Zero

\* np.diff(self.pnl), the common divisor start_value left out
Diff(p) == [i \in 1..(Len(p) - 1) |-> p[i + 1] - p[i]]

\* the ratio without the test np.std(returns) > 0
SharpeUnguarded(p) ==
    IF Len(p) > 1
    THEN [mean |-> SumSeq(Diff(p)), std_positive |-> TRUE]
    ELSE [mean |-> 0, std_positive |-> FALSE]

\* the Sharpe ratio mean / std * sqrt(252), kept as the sum of the step
\* returns (the sign of the mean) and whether np.std(returns) > 0; 0 otherwise
Sharpe(p) ==
    IF Len(p) > 1
    THEN LET r == Diff(p)
             stdpos == \E i, j \in 1..Len(r) : r[i] # r[j]
         IN IF stdpos THEN [mean |-> SumSeq(r), std_positive |-> TRUE]
            ELSE [mean |-> 0, std_positive |-> FALSE]
    ELSE [mean |-> 0, std_positive |-> FALSE]

SharpeIsZero(sh) == sh.mean = 0

GetAnalysis ==
    [start_value |-> start_value,
     end_value |-> end_value,
     total_return |-> <<end_value - start_value, start_value>>,
     total_trades |-> Len(trades),
     winning_trades |-> Len(WinningTrades(trades)),
     losing_trades |-> Len(LosingTrades(trades)),
     win_rate |-> WinRate(trades),
     avg_win |-> AvgWin(trades),
     avg_loss |-> AvgLoss(trades),
     profit_factor |-> ProfitFactor(trades),
     max_drawdown |-> MaxDrawdown(drawdown),
     sharpe_ratio |-> Sharpe(pnl)]


\* ------------------------------------------------------------ the bar cycle

\* a run of a rotation strategy: the strategy class, its params, the number of
\* bars of the feeds, and the engine's cash and commission
Params(kind, top_n, lookback, rebalance_days, ma_period, bars) ==
    [kind |-> kind, top_n |-> top_n, lookback |-> lookback,
     rebalance_days |-> rebalance_days, ma_period |-> ma_period, bars |-> bars,
     window |-> Max2(lookback + 1, ma_period),
     cash |-> InitialCash, commission |-> CommissionPerMille]

\* the runs of the rotation strategies that are explored
RotationConfigs ==
    {Params("momentum_ma", 1, 1, 2, 2, MaxBars), Params("momentum", 2, 1, 2, 1, MaxBars),
     Params("dual", 2, 1, 2, 1, MaxBars), Params("buyhold", 1, 1, 1, 1, MaxBarsHold)}

InitRun(configs) ==
    /\ cfg \in configs
    /\ pc = "run"
    /\ bar = 0
    /\ hist = [d \in Datas |-> <<>>]
    /\ cash = cfg.cash * Mill
    /\ pos = [d \in Datas |-> 0]
    /\ tr = [d \in Datas |-> [gross |-> 0, comm |-> 0]]
    /\ value = cfg.cash * Mill
    /\ submitted = <<>>
    /\ pending_orders = <<>>
    /\ notified = <<>>
    /\ day_counter = 0
    /\ rebalance_day = 0
    /\ rebalanced = FALSE
    /\ top_assets = {}
    /\ did_rebalance = FALSE
    /\ order = FALSE
    /\ buy_price = 0
    /\ orders = [d \in Datas |-> FALSE]
    /\ buy_prices = [d \in Datas |-> 0]
    /\ nzd = [d \in Datas |-> 0]
    /\ crossover = [d \in Datas |-> 0]
    /\ rsi = RsiNeutral
    /\ macd = 0
    /\ start_value = cfg.cash * Mill
    /\ end_value = 0
    /\ pnl = <<>>
    /\ trades = <<>>
    /\ drawdown = <<>>
    /\ peak = cfg.cash * Mill
    /\ results_list = <<>>
    /\ strategy_names = <<>>
    /\ comparison = <<>>
    /\ cerebro = None
    /\ results = None
    /\ called = "__init__"
    /\ raised = ""

HasOrder(d) ==
    \/ \E i \in 1..Len(submitted) : submitted[i].data = d
    \/ \E i \in 1..Len(pending_orders) : pending_orders[i].data = d

\* a bar's input: closes for every feed, and the opening price of every feed
\* that has an order to settle
InputsOver(closes, opens) ==
    {io \in [close : [Datas -> closes], open : [Datas -> closes \cup opens]] :
        \A d \in Datas : IF HasOrder(d) THEN io.open[d] \in opens
                                         ELSE io.open[d] = io.close[d]}

BarInputs == InputsOver(Prices, OpenPrices)

Feed(cl) == [d \in Datas |-> PushClose(hist[d], cl[d])]

\* the feeds advance, the broker settles, the analyzer hears of closed trades
Settle(h2, b, v) ==
    /\ bar' = bar + 1
    /\ hist' = h2
    /\ cash' = b.cash
    /\ pos' = b.pos
    /\ tr' = b.tr
    /\ value' = v
    /\ pending_orders' = b.carried
    /\ notified' = [i \in 1..Len(b.notes) |->
                        [data |-> b.notes[i].data, status |-> b.notes[i].status]]
    /\ trades' = NotifyTrades(trades, b.closed)
    /\ UNCHANGED <<compare_vars, engine_vars>>

\* a rebalance that schedules the next one a bar late
RebalanceLate(h2, b, v) ==
    LET top == TopAssets(Rankings(cfg.kind, h2, bar + 1), cfg.top_n)
    IN /\ rebalance_day' = day_counter + 2 + cfg.rebalance_days
       /\ top_assets' = top
       /\ did_rebalance' = TRUE
       /\ \E iter \in Iterations(top) :
            submitted' = RebalanceOrders(cfg.kind, iter, top, b.pos, h2, v)

\* a rebalance that re-arms the schedule only when it has a target
RebalanceArmedByTargets(h2, b, v) ==
    LET top == TopAssets(Rankings(cfg.kind, h2, bar + 1), cfg.top_n)
    IN /\ rebalance_day' = IF top = {} THEN rebalance_day
                           ELSE day_counter + 1 + cfg.rebalance_days
       /\ top_assets' = top
       /\ did_rebalance' = TRUE
       /\ \E iter \in Iterations(top) :
            submitted' = RebalanceOrders(cfg.kind, iter, top, b.pos, h2, v)

\* the rebalance of MomentumRotationStrategy.next / DualMomentumStrategy.next
\* once the schedule check has passed
Rebalance(h2, b, v) ==
    LET top == TopAssets(Rankings(cfg.kind, h2, bar + 1), cfg.top_n)
    IN /\ rebalance_day' = day_counter + 1 + cfg.rebalance_days
       /\ top_assets' = top
       /\ did_rebalance' = TRUE
       /\ \E iter \in Iterations(top) :
            submitted' = RebalanceOrders(cfg.kind, iter, top, b.pos, h2, v)

SkipRebalance ==
    /\ submitted' = <<>>
    /\ did_rebalance' = FALSE
    /\ UNCHANGED <<rebalance_day, top_assets>>

\* one bar under MomentumRotationStrategy (prenext calls next)
MomentumBarOn(inputs) ==
    /\ pc = "run" /\ bar < cfg.bars
    /\ cfg.kind \in {"momentum", "momentum_ma"}
    /\ \E io \in inputs :
         LET h2 == Feed(io.close)
             b == BrokerNext(io.open)
             v == GetValue(b.cash, b.pos, h2)
         IN /\ Settle(h2, b, v)
            /\ day_counter' = day_counter + 1
            /\ IF day_counter + 1 < rebalance_day
               THEN SkipRebalance
               ELSE Rebalance(h2, b, v)
            /\ AnalyzerNext(v)
    /\ UNCHANGED <<cfg, pc, rebalanced, signal_vars, start_value, end_value>>

\* one bar under DualMomentumStrategy
DualBarOn(inputs) ==
    /\ pc = "run" /\ bar < cfg.bars
    /\ cfg.kind = "dual"
    /\ \E io \in inputs :
         LET h2 == Feed(io.close)
             b == BrokerNext(io.open)
             v == GetValue(b.cash, b.pos, h2)
         IN /\ Settle(h2, b, v)
            /\ day_counter' = day_counter + 1
            /\ IF day_counter + 1 < rebalance_day
               THEN SkipRebalance
               ELSE Rebalance(h2, b, v)
            /\ AnalyzerNext(v)
    /\ UNCHANGED <<cfg, pc, rebalanced, signal_vars, start_value, end_value>>

\* one bar under BuyAndHoldUniverse
BuyHoldBarOn(inputs) ==
    /\ pc = "run" /\ bar < cfg.bars
    /\ cfg.kind = "buyhold"
    /\ \E io \in inputs :
         LET h2 == Feed(io.close)
             b == BrokerNext(io.open)
             v == GetValue(b.cash, b.pos, h2)
         IN /\ Settle(h2, b, v)
            /\ IF rebalanced
               THEN submitted' = <<>>
               ELSE submitted' = BuyHoldOrders(DataOrder, h2, v)
            /\ rebalanced' = TRUE
            /\ AnalyzerNext(v)
    /\ UNCHANGED <<cfg, pc, day_counter, rebalance_day, top_assets,
                   did_rebalance, signal_vars, start_value, end_value>>

\* a run of an indicator strategy
SignalParams(kind, fast, slow, ma_period, stop_loss, take_profit, max_position_size, bars) ==
    [kind |-> kind, fast |-> fast, slow |-> slow, ma_period |-> ma_period,
     stop_loss |-> stop_loss, take_profit |-> take_profit,
     max_position_size |-> max_position_size, bars |-> bars,
     window |-> Max2(slow, ma_period + 1),
     cash |-> InitialCash, commission |-> CommissionPerMille]

\* the runs of the indicator strategies that are explored
SignalConfigs ==
    {SignalParams("sma", 1, 2, 1, 5, 15, 20, MaxBarsSignal),
     SignalParams("macd", 1, 2, 1, 5, 15, 20, MaxBarsSignal),
     SignalParams("universe", 1, 2, 3, 5, 15, 30, MaxBarsSignal),
     SignalParams("simple_ma", 1, 1, 2, 10, 20, 30, MaxBarsSignal)}

\* a single-feed run: the second feed carries the closes of the first and is
\* never traded
SingleInputs(inputs) ==
    {io \in inputs : \A d \in Datas : io.close[d] = io.close[Data0]}

\* the indicators of every feed advance
Indicators(h2) ==
    /\ nzd' = [d \in Datas |-> Nzd(h2[d], bar + 1, nzd[d])]
    /\ crossover' = [d \in Datas |-> CrossOver(h2[d], bar + 1, nzd[d])]

\* BaseStrategy: notify_order, then next() unless the strategy is in prenext
BaseBar(h2, b, v, cross) ==
    LET bp == NotifyOrder(buy_price, b.notes)
        pending == order /\ b.notes = <<>>
        new == IF bar + 1 <= cfg.slow THEN <<>>
               ELSE SignalNext(pending, cross, b.pos[Data0],
                               CloseAgo(h2[Data0], 0), v, bp)
    IN /\ buy_price' = bp
       /\ submitted' = new
       /\ order' = (pending \/ new # <<>>)

\* one bar under SMACrossover
SMACrossoverBarOn(inputs) ==
    /\ pc = "run" /\ bar < cfg.bars
    /\ cfg.kind = "sma"
    /\ \E io \in inputs :
         LET h2 == Feed(io.close)
             b == BrokerNext(io.open)
             v == GetValue(b.cash, b.pos, h2)
         IN /\ Settle(h2, b, v)
            /\ Indicators(h2)
            /\ BaseBar(h2, b, v, CrossOver(h2[Data0], bar + 1, nzd[Data0]))
            /\ AnalyzerNext(v)
    /\ UNCHANGED <<cfg, pc, rotation_vars, orders, buy_prices, rsi, macd, start_value, end_value>>

\* one bar under MACDStrategy; the CrossOver of the MACD and signal lines is
\* an input of the bar (exponential averages are not computed).  RSIStrategy,
\* BollingerBandsStrategy and MultiStrategyPortfolio have the same next()
\* around their own entry and exit signals.
MACDBarOn(inputs) ==
    /\ pc = "run" /\ bar < cfg.bars
    /\ cfg.kind = "macd"
    /\ \E io \in inputs :
       \E cross \in IF bar + 1 <= cfg.slow THEN {0} ELSE {-1, 0, 1} :
         LET h2 == Feed(io.close)
             b == BrokerNext(io.open)
             v == GetValue(b.cash, b.pos, h2)
         IN /\ Settle(h2, b, v)
            /\ crossover' = [crossover EXCEPT ![Data0] = cross]
            /\ BaseBar(h2, b, v, cross)
            /\ AnalyzerNext(v)
    /\ UNCHANGED <<cfg, pc, rotation_vars, orders, buy_prices, nzd, rsi, macd, start_value, end_value>>

\* one bar under UniverseRotationStrategy (prenext calls next)
UniverseBarOn(inputs) ==
    /\ pc = "run" /\ bar < cfg.bars
    /\ cfg.kind = "universe"
    /\ \E io \in inputs :
         LET h2 == Feed(io.close)
             b == BrokerNext(io.open)
             v == GetValue(b.cash, b.pos, h2)
             cross == [d \in Datas |-> CrossOver(h2[d], bar + 1, nzd[d])]
             st == UniverseNext(DataOrder,
                       [submitted |-> <<>>, orders |-> NotifyOrders(orders, b.notes),
                        buy_prices |-> buy_prices],
                       b.pos, h2, v, cross, bar + 1)
         IN /\ Settle(h2, b, v)
            /\ Indicators(h2)
            /\ submitted' = st.submitted
            /\ orders' = st.orders
            /\ buy_prices' = st.buy_prices
            /\ AnalyzerNext(v)
    /\ UNCHANGED <<cfg, pc, rotation_vars, order, buy_price, rsi, macd, start_value, end_value>>

\* one bar under SimpleMAFilterStrategy (prenext calls next)
SimpleMABarOn(inputs) ==
    /\ pc = "run" /\ bar < cfg.bars
    /\ cfg.kind = "simple_ma"
    /\ \E io \in inputs :
         LET h2 == Feed(io.close)
             b == BrokerNext(io.open)
             v == GetValue(b.cash, b.pos, h2)
             st == UniverseNext(DataOrder,
                       [submitted |-> <<>>, orders |-> NotifyOrders(orders, b.notes),
                        buy_prices |-> buy_prices],
                       b.pos, h2, v, crossover, bar + 1)
         IN /\ Settle(h2, b, v)
            /\ submitted' = st.submitted
            /\ orders' = st.orders
            /\ buy_prices' = st.buy_prices
            /\ AnalyzerNext(v)
    /\ UNCHANGED <<cfg, pc, rotation_vars, order, buy_price, nzd, crossover,
                   rsi, macd, start_value, end_value>>

\* ExampleCustomStrategy.next (examples.py).  The class derives from
\* bt.Strategy and defines no notify_order, so self.order keeps the order it
\* was assigned.  `entry` stands for "rsi < 70 and volume_ok"; the averages of
\* RSI and volume are not computed.  [submitted, order, buy_price]
CustomNext(pending, entry, p, h, n, c, bp) ==
    LET close == CloseAgo(h, 0)
        sma == SmaSum(h, cfg.ma_period)
        size == FloorDiv(c * cfg.max_position_size, 100 * close * Mill)
        keep == [submitted |-> <<>>, order |-> pending, buy_price |-> bp]
        exit == [submitted |-> <<ClosePosition(Data0, p, close)>>, order |-> TRUE,
                 buy_price |-> bp]
    IN IF pending THEN keep
       ELSE IF p = 0
            THEN IF close * cfg.ma_period > sma /\ entry
                 THEN [submitted |-> IF size > 0 THEN <<Order(Data0, size, close)>> ELSE <<>>,
                       order |-> size > 0, buy_price |-> close]
                 ELSE keep
            ELSE IF StopLoss(close, bp) THEN exit
            ELSE IF TakeProfit(close, bp) THEN exit
            ELSE IF close * cfg.ma_period < sma THEN exit
            ELSE keep

\* one bar under ExampleCustomStrategy; next() runs once the average exists
CustomBarOn(inputs) ==
    /\ pc = "run" /\ bar < cfg.bars
    /\ cfg.kind = "custom"
    /\ \E io \in inputs : \E entry \in BOOLEAN :
         LET h2 == Feed(io.close)
             b == BrokerNext(io.open)
             v == GetValue(b.cash, b.pos, h2)
             st == IF bar + 1 < cfg.ma_period
                   THEN [submitted |-> <<>>, order |-> order, buy_price |-> buy_price]
                   ELSE CustomNext(order, entry, b.pos[Data0], h2[Data0], bar + 1,
                                   b.cash, buy_price)
         IN /\ Settle(h2, b, v)
            /\ submitted' = st.submitted
            /\ order' = st.order
            /\ buy_price' = st.buy_price
            /\ AnalyzerNext(v)
    /\ UNCHANGED <<cfg, pc, rotation_vars, orders, buy_prices, nzd, crossover,
                   rsi, macd, start_value, end_value>>

\* MultiStrategyPortfolio.next: sma is the sign of sma_fast - sma_slow, r the
\* RSI, m the sign of macd - signal.  The RSI and the MACD lines are inputs of
\* the bar, they are not computed from the closes.
BullishSignals(sma, r, m) ==
    (IF sma > 0 THEN 1 ELSE 0) + (IF r < RsiOversold THEN 1 ELSE 0)
    + (IF m > 0 THEN 1 ELSE 0)

BearishSignals(sma, r, m) ==
    (IF sma > 0 THEN 0 ELSE 1)
    + (IF r < RsiOversold THEN 0 ELSE IF r > RsiOverbought THEN 1 ELSE 0)
    + (IF m > 0 THEN 0 ELSE 1)

MultiNext(pending, sma, r, m, p, close, v, bp) ==
    IF pending THEN <<>>
    ELSE IF p = 0
         THEN IF BullishSignals(sma, r, m) >= 2 /\ GetPositionSize(v, close) > 0
              THEN <<Order(Data0, GetPositionSize(v, close), close)>>
              ELSE <<>>
         ELSE IF BearishSignals(sma, r, m) >= 2 THEN <<ClosePosition(Data0, p, close)>>
         ELSE IF StopLoss(close, bp) THEN <<ClosePosition(Data0, p, close)>>
         ELSE IF TakeProfit(close, bp) THEN <<ClosePosition(Data0, p, close)>>
         ELSE <<>>

\* one bar under MultiStrategyPortfolio; next() runs once the slow average
\* exists
MultiBarOn(inputs) ==
    /\ pc = "run" /\ bar < cfg.bars
    /\ cfg.kind = "multi"
    /\ \E io \in inputs : \E r \in RsiLevels : \E m \in {-1, 0, 1} :
         LET h2 == Feed(io.close)
             b == BrokerNext(io.open)
             v == GetValue(b.cash, b.pos, h2)
             bp == NotifyOrder(buy_price, b.notes)
             pending == order /\ b.notes = <<>>
             new == IF bar + 1 < cfg.slow THEN <<>>
                    ELSE MultiNext(pending, SmaDiff(h2[Data0]), r, m, b.pos[Data0],
                                   CloseAgo(h2[Data0], 0), v, bp)
         IN /\ Settle(h2, b, v)
            /\ rsi' = r
            /\ macd' = m
            /\ buy_price' = bp
            /\ submitted' = new
            /\ order' = (pending \/ new # <<>>)
            /\ AnalyzerNext(v)
    /\ UNCHANGED <<cfg, pc, rotation_vars, orders, buy_prices, nzd, crossover,
                   start_value, end_value>>

\* the feeds are exhausted: PerformanceAnalyzer.stop
Stop ==
    /\ pc = "run" /\ bar >= 1
    /\ pc' = "done"
    /\ end_value' = value
    /\ UNCHANGED <<cfg, bar, hist, cash, pos, tr, value, submitted, pending_orders, notified, rotation_vars,
                   signal_vars, start_value, pnl, trades, drawdown, peak, compare_vars, engine_vars>>

MomentumBar == MomentumBarOn(BarInputs)
DualBar == DualBarOn(BarInputs)
BuyHoldBar == BuyHoldBarOn(BarInputs)

InitRotation == InitRun(RotationConfigs)

NextRotation == MomentumBar \/ DualBar \/ BuyHoldBar \/ Stop

SpecRotation == InitRotation /\ [][NextRotation]_vars

\* ------------------------------------------------ the indicator strategies

SMACrossoverBar == SMACrossoverBarOn(SingleInputs(BarInputs))
MACDBar == MACDBarOn(SingleInputs(BarInputs))
UniverseBar == UniverseBarOn(InputsOver(UniversePrices, OpenPrices))
SimpleMABar == SimpleMABarOn(InputsOver(UniversePrices, OpenPrices))

InitSignal == InitRun(SignalConfigs)

NextSignal == SMACrossoverBar \/ MACDBar \/ UniverseBar \/ SimpleMABar \/ Stop

SpecSignal == InitSignal /\ [][NextSignal]_vars

\* the same strategies, also with a max_position_size that buys one share at
\* a close of 11, none at 12 (sma), and none at all (universe)
SizingConfigs ==
    {SignalParams("sma", 1, 2, 1, 5, 15, 11, MaxBarsSignal),
     SignalParams("universe", 1, 2, 3, 5, 15, 10, MaxBarsSignal)}

InitSizing == InitRun(SignalConfigs \cup SizingConfigs)

SpecSizing == InitSizing /\ [][NextSignal]_vars

\* ---------------------------------------------------------- every strategy

\* ---------------------------------------------- runs of the voting strategy

MultiConfigs == {SignalParams("multi", 1, 2, 1, 5, 5, 20, MaxBarsSignal)}

MultiBar == MultiBarOn(SingleInputs(InputsOver(UniversePrices, OpenPrices)))

InitMulti == InitRun(MultiConfigs)

NextMulti == MultiBar \/ Stop

SpecMulti == InitMulti /\ [][NextMulti]_vars

CustomConfigs == {SignalParams("custom", 1, 1, 2, 5, 15, 20, MaxBarsSignal)}

CustomBar == CustomBarOn(SingleInputs(BarInputs))

Init == InitRun(RotationConfigs \cup SignalConfigs \cup CustomConfigs \cup MultiConfigs)

Next ==
    \/ MomentumBar \/ DualBar \/ BuyHoldBar
    \/ SMACrossoverBar \/ MACDBar \/ UniverseBar \/ SimpleMABar
    \/ CustomBar \/ MultiBar
    \/ Stop

Spec == Init /\ [][Next]_vars

\* ------------------------------- a strategies.py strategy over several feeds
\* run_portfolio_backtest adds every feed to one run of a single strategy:
\* the feeds carry their own closes, self.data is the first of them.

PortfolioInputs == InputsOver(UniversePrices, OpenPrices)

SMACrossoverBarPortfolio == SMACrossoverBarOn(PortfolioInputs)
MACDBarPortfolio == MACDBarOn(PortfolioInputs)
MultiBarPortfolio == MultiBarOn(PortfolioInputs)

PortfolioConfigs ==
    {SignalParams("sma", 1, 2, 1, 5, 15, 20, MaxBarsPortfolio),
     SignalParams("macd", 1, 2, 1, 5, 15, 20, MaxBarsPortfolio),
     SignalParams("multi", 1, 2, 1, 5, 5, 20, MaxBarsPortfolio)}

InitPortfolio == InitRun(PortfolioConfigs)

NextPortfolio ==
    SMACrossoverBarPortfolio \/ MACDBarPortfolio \/ MultiBarPortfolio \/ Stop

SpecPortfolio == InitPortfolio /\ [][NextPortfolio]_vars

\* ------------------------------------------- a bar series with a price of 0
\* DataHandler.get_backtrader_feed hands the downloaded or loaded frame to
\* bt.feeds.PandasData as it is and BacktestEngine.add_data passes the feed on:
\* a close of 0 reaches the strategy like any other close.

PricesWithZero == Prices \cup {0}

SMACrossoverBarZero == SMACrossoverBarOn(SingleInputs(InputsOver(PricesWithZero, OpenPrices)))

ZeroPriceConfigs == {SignalParams("sma", 1, 2, 1, 5, 15, 20, MaxBarsSignal)}

InitZeroPrice == InitRun(ZeroPriceConfigs)

NextZeroPrice == SMACrossoverBarZero \/ Stop

SpecZeroPrice == InitZeroPrice /\ [][NextZeroPrice]_vars

\* ------------------------------------------------------ compare_strategies
\* A run output is kept as the start and end value of its analyzer; a row of
\* the comparison carries the label, 'Final Value' and 'Return %' (a fraction
\* <<numerator, denominator>>).

RunOutputs == [start_value : {100, 200}, end_value : {90, 100, 110, 220}]

StrategyNames == {"SMA Crossover", "RSI"}

\* total_return_pct of get_analysis
TotalReturnPct(r) == <<(r.end_value - r.start_value) * 100, r.start_value>>

\* the dictionary appended for one (result, name) of the zip
ComparisonRow(r, name) ==
    [Strategy |-> name, FinalValue |-> r.end_value, Return |-> TotalReturnPct(r)]

\* zip(results_list, strategy_names): as many pairs as the shorter list has
Zipped(rs, names) ==
    [i \in 1..(IF Len(rs) < Len(names) THEN Len(rs) ELSE Len(names)) |->
        ComparisonRow(rs[i], names[i])]

\* the rows arranged by the permutation f of their indices
Arranged(rows, f) == [i \in 1..Len(rows) |-> rows[f[i]]]

Arrangements(rows) ==
    {Arranged(rows, f) : f \in {g \in [1..Len(rows) -> 1..Len(rows)] :
                                  \A i, j \in 1..Len(rows) : i # j => g[i] # g[j]}}

\* a 'Return %' is below another one
ReturnLess(a, b) == a[1] * b[2] < b[1] * a[2]

\* a sort that puts the lowest return first
SortValuesAscending(rows) ==
    {s \in Arrangements(rows) :
        \A i \in 1..(Len(s) - 1) : ~ReturnLess(s[i + 1].Return, s[i].Return)}

\* df.sort_values('Return %', ascending=False): the order of rows with equal
\* returns is not fixed by the sort
SortValues(rows) ==
    {s \in Arrangements(rows) :
        \A i \in 1..(Len(s) - 1) : ~ReturnLess(s[i].Return, s[i + 1].Return)}

\* the caller appends the output of a run, and a label
AppendResult ==
    /\ pc = "run" /\ Len(results_list) < MaxRuns
    /\ \E r \in RunOutputs : results_list' = Append(results_list, r)
    /\ UNCHANGED <<cfg, pc, bar, hist, cash, pos, tr, value, submitted, pending_orders, notified,
                   rotation_vars, signal_vars, start_value, end_value, pnl, trades,
                   drawdown, peak, strategy_names, comparison, engine_vars>>

AppendName ==
    /\ pc = "run" /\ Len(strategy_names) < MaxRuns
    /\ \E name \in StrategyNames : strategy_names' = Append(strategy_names, name)
    /\ UNCHANGED <<cfg, pc, bar, hist, cash, pos, tr, value, submitted, pending_orders, notified,
                   rotation_vars, signal_vars, start_value, end_value, pnl, trades,
                   drawdown, peak, results_list, comparison, engine_vars>>

\* BacktestEngine.compare_strategies on at least one (result, name) pair
CompareStrategies ==
    /\ pc = "run" /\ Zipped(results_list, strategy_names) # <<>>
    /\ comparison' \in SortValues(Zipped(results_list, strategy_names))
    /\ pc' = "compared"
    /\ UNCHANGED <<cfg, bar, hist, cash, pos, tr, value, submitted, pending_orders, notified,
                   rotation_vars, signal_vars, start_value, end_value, pnl, trades,
                   drawdown, peak, results_list, strategy_names, engine_vars>>

InitCompare == InitRun({Params("buyhold", 1, 1, 1, 1, MaxBarsHold)})

NextCompare == AppendResult \/ AppendName \/ CompareStrategies

SpecCompare == InitCompare /\ [][NextCompare]_vars

\* ------------------------------------------------ the engine's life cycle
\* BacktestEngine's methods called in any order.  cerebro.run is kept as the
\* list of strategies it returns: none when no feed was added, the default
\* bt.Strategy when no strategy was added.

StrategyClasses == {"SMACrossover", "MultiStrategyPortfolio"}

run_vars == <<cfg, pc, bar, hist, cash, pos, tr, value, submitted, pending_orders, notified,
              rotation_vars, signal_vars, start_value, end_value, pnl, trades, drawdown,
              peak, compare_vars>>

\* BacktestEngine.setup_cerebro: a new bt.Cerebro()
NewCerebro == [feeds |-> <<>>, strats |-> <<>>]

SetupCerebro ==
    /\ cerebro' = <<NewCerebro>>
    /\ called' = "setup_cerebro" /\ raised' = ""
    /\ UNCHANGED <<results, run_vars>>

\* an add_data that sets the simulator up on every call
AddDataFresh(feed) ==
    /\ cerebro' = <<[NewCerebro EXCEPT !.feeds = Append(@, feed)]>>
    /\ called' = "add_data" /\ raised' = ""
    /\ UNCHANGED <<results, run_vars>>

\* BacktestEngine.add_data
AddData(feed) ==
    /\ LET c == IF cerebro = None THEN NewCerebro ELSE cerebro[1]
       IN /\ Len(c.feeds) < MaxAdded
          /\ cerebro' = <<[c EXCEPT !.feeds = Append(@, feed)]>>
    /\ called' = "add_data" /\ raised' = ""
    /\ UNCHANGED <<results, run_vars>>

\* BacktestEngine.add_strategy
AddStrategy(strategy) ==
    /\ LET c == IF cerebro = None THEN NewCerebro ELSE cerebro[1]
       IN /\ Len(c.strats) < MaxAdded
          /\ cerebro' = <<[c EXCEPT !.strats = Append(@, strategy)]>>
    /\ called' = "add_strategy" /\ raised' = ""
    /\ UNCHANGED <<results, run_vars>>

\* BacktestEngine.run
Run ==
    /\ called' = "run"
    /\ IF cerebro = None
       THEN raised' = "ValueError" /\ UNCHANGED results
       ELSE /\ raised' = ""
            /\ results' = <<IF cerebro[1].feeds = <<>> THEN <<>>
                            ELSE IF cerebro[1].strats = <<>> THEN <<"Strategy">>
                            ELSE cerebro[1].strats>>
    /\ UNCHANGED <<cerebro, run_vars>>

\* the exception of get_metrics: the guard, then self.results[0]
MetricsError ==
    IF results = None THEN "ValueError"
    ELSE IF results[1] = <<>> THEN "IndexError" ELSE ""

\* BacktestEngine.get_metrics
GetMetrics ==
    /\ called' = "get_metrics" /\ raised' = MetricsError
    /\ UNCHANGED <<cerebro, results, run_vars>>

\* BacktestEngine.print_metrics: get_metrics first
PrintMetrics ==
    /\ called' = "print_metrics" /\ raised' = MetricsError
    /\ UNCHANGED <<cerebro, results, run_vars>>

AddDataAny == \E feed \in Datas : AddData(feed)

AddStrategyAny == \E strategy \in StrategyClasses : AddStrategy(strategy)

InitEngine == InitRun({Params("buyhold", 1, 1, 1, 1, MaxBarsHold)})

NextEngine ==
    SetupCerebro \/ AddDataAny \/ AddStrategyAny \/ Run \/ GetMetrics \/ PrintMetrics

SpecEngine == InitEngine /\ [][NextEngine]_vars

\* ------------------------------------------------- runs with a long warm-up
\* Strategies whose prenext calls next, with a long average that is ready
\* later than the crossover (universe), a three-bar average (simple_ma) and a
\* two-bar momentum.

WarmupConfigs ==
    {SignalParams("universe", 1, 2, 4, 5, 15, 30, MaxBarsSignal),
     SignalParams("simple_ma", 1, 1, 3, 10, 20, 30, MaxBarsSignal),
     Params("momentum", 1, 2, 2, 1, MaxBars)}

InitWarmup == InitRun(WarmupConfigs)

NextWarmup == MomentumBar \/ UniverseBar \/ SimpleMABar \/ Stop

SpecWarmup == InitWarmup /\ [][NextWarmup]_vars

\* ------------------------------------------ runs with invalid parameters
\* MomentumRotationStrategy takes its params as they are: a top_n of 0 or -1,
\* a rebalance_days of 0.

InvalidConfigs ==
    {Params("momentum", 0, 1, 2, 1, MaxBars), Params("momentum", -1, 1, 2, 1, MaxBars),
     Params("momentum", 2, 1, 0, 1, MaxBars)}

InitInvalid == InitRun(InvalidConfigs)

NextInvalid == MomentumBar \/ Stop

SpecInvalid == InitInvalid /\ [][NextInvalid]_vars

\* ---------------------------------------------- runs with rejected orders
\* The indicator strategies with a max_position_size that spends the whole
\* value (or, on two feeds, more than half of it each): a buy is rejected
\* with Margin when commission or a higher opening price makes it cost more
\* than the cash.

RejectionConfigs ==
    {SignalParams("sma", 1, 2, 1, 5, 15, 100, MaxBarsSignal),
     SignalParams("universe", 1, 2, 3, 5, 15, 60, MaxBarsSignal),
     SignalParams("simple_ma", 1, 1, 2, 10, 20, 60, MaxBarsSignal),
     SignalParams("multi", 1, 2, 1, 5, 5, 100, MaxBarsSignal)}

InitRejection == InitRun(RejectionConfigs)

NextRejection == SMACrossoverBar \/ UniverseBar \/ SimpleMABar \/ MultiBar \/ Stop

SpecRejection == InitRejection /\ [][NextRejection]_vars

\* ------------------------------------------------- runs with deferred fills
\* The same strategies when a feed may have no bar for the broker to execute
\* on, so that an accepted order is still pending when next() runs again.

DeferredInputs(closes, opens) == InputsOver(closes, opens \cup {NoFill})

MomentumBarDeferred == MomentumBarOn(DeferredInputs(Prices, OpenPrices))
SMACrossoverBarDeferred == SMACrossoverBarOn(SingleInputs(DeferredInputs(Prices, OpenPrices)))
UniverseBarDeferred == UniverseBarOn(DeferredInputs(UniversePrices, OpenPrices))

DeferredConfigs ==
    {Params("momentum", 2, 1, 2, 1, MaxBars),
     SignalParams("sma", 1, 2, 1, 5, 15, 20, MaxBarsSignal),
     SignalParams("universe", 1, 2, 3, 5, 15, 30, MaxBarsSignal)}

InitDeferred == InitRun(DeferredConfigs)

NextDeferred ==
    MomentumBarDeferred \/ SMACrossoverBarDeferred \/ UniverseBarDeferred \/ Stop

SpecDeferred == InitDeferred /\ [][NextDeferred]_vars

\* ------------------------------------------------------------- Scenario B
\* A two-feed universe, top_n = 1, a rebalance every 2 bars, and only bars on
\* which the first feed's momentum score is higher than the second's.

FeedA == DataOrder[1]
FeedB == DataOrder[2]

ScenarioBConfigs ==
    {Params("momentum_ma", 1, 2, 2, 2, MaxBarsB), Params("momentum", 1, 2, 2, 1, MaxBarsB),
     Params("dual", 1, 2, 2, 1, MaxBarsB)}

LeadInputs ==
    {io \in InputsOver(ScenarioPrices, OpenPrices) :
        bar + 1 > cfg.lookback =>
            RocGreater(Roc(Feed(io.close)[FeedA]), Roc(Feed(io.close)[FeedB]))}

MomentumBarB == MomentumBarOn(LeadInputs)
DualBarB == DualBarOn(LeadInputs)

InitScenarioB == InitRun(ScenarioBConfigs)

NextScenarioB == MomentumBarB \/ DualBarB \/ Stop

SpecScenarioB == InitScenarioB /\ [][NextScenarioB]_vars

\* ------------------------------------------------------------- Scenario A
\* SMACrossover with fast = 2 and slow = 3 on the closes below, cash 1000 and
\* no commission.  A bar carries the scenario's close or the close one above
\* it, so the scenario is one of the runs.

ScenarioACloses == <<10, 10, 10, 12, 14, 9, 9, 9>>

ScenarioAConfig ==
    [SignalParams("sma", 2, 3, 1, 5, 15, 20, Len(ScenarioACloses))
        EXCEPT !.cash = 1000, !.commission = 0, !.window = Len(ScenarioACloses)]

ScenarioAInputs ==
    {io \in SingleInputs(InputsOver(9..15, OpenPrices)) :
        io.close[Data0] \in {ScenarioACloses[bar + 1], ScenarioACloses[bar + 1] + 1}}

SMACrossoverBarA == SMACrossoverBarOn(ScenarioAInputs)

InitScenarioA == InitRun({ScenarioAConfig})

NextScenarioA == SMACrossoverBarA \/ Stop

SpecScenarioA == InitScenarioA /\ [][NextScenarioA]_vars

\* --------------------------------------------------------------- analyzer
\* PerformanceAnalyzer alone: trades are closed with any net result, then the
\* run stops and get_analysis is read.

NotifyTrade ==
    /\ pc = "run" /\ Len(trades) < MaxTrades
    /\ \E x \in TradePnls : trades' = NotifyTrades(trades, <<[pnl |-> x, pnlcomm |-> x]>>)
    /\ UNCHANGED <<cfg, pc, bar, hist, cash, pos, tr, value, submitted, pending_orders, notified, rotation_vars,
                   signal_vars, start_value, end_value, pnl, drawdown, peak, compare_vars, engine_vars>>

StopAnalyzer ==
    /\ pc = "run"
    /\ pc' = "done"
    /\ end_value' = value
    /\ UNCHANGED <<cfg, bar, hist, cash, pos, tr, value, submitted, pending_orders, notified, rotation_vars,
                   signal_vars, start_value, pnl, trades, drawdown, peak, compare_vars, engine_vars>>

InitAnalyzer == InitRun({Params("buyhold", 1, 1, 1, 1, MaxBarsHold)})

NextAnalyzer == NotifyTrade \/ StopAnalyzer

SpecAnalyzer == InitAnalyzer /\ [][NextAnalyzer]_vars

\* ================================================================== claims

OrderFor(d) == \E i \in 1..Len(submitted) : submitted[i].data = d

IsRotation == cfg.kind \in {"momentum", "momentum_ma", "dual"}

\* a held target whose holding value is within 10% of its target value
WithinDeadband(d) ==
    /\ IsRotation /\ did_rebalance
    /\ d \in top_assets /\ pos[d] > 0
    /\ 10 * Abs(Cardinality(top_assets) * pos[d] * Close(d) * Mill - value) <= value

\* C4: at a rebalance of either rotation variant, a held instrument that stays
\* in the target set and whose holding value is within 10% of its target value
\* gets no order.
C4_DeadbandNoOrder ==
    \A d \in Datas : WithinDeadband(d) => ~OrderFor(d)

FeedIndex(d) == CHOOSE i \in 1..Len(DataOrder) : DataOrder[i] = d

EligibleNow(d) ==
    IF cfg.kind = "dual" THEN DualEligible(hist[d], bar)
    ELSE MomentumEligible(cfg.kind, hist[d], bar)

SameScore(d, e) ==
    /\ ~RocGreater(Roc(hist[d]), Roc(hist[e]))
    /\ ~RocGreater(Roc(hist[e]), Roc(hist[d]))

\* e is ranked before d: a higher score, or the same score and earlier in the feeds
RankedBefore(e, d) ==
    \/ RocGreater(Roc(hist[e]), Roc(hist[d]))
    \/ SameScore(e, d) /\ FeedIndex(e) < FeedIndex(d)

\* C5: at every rebalance the target set is the first top_n eligible
\* instruments by score descending, equal scores in feed order.
C5_StableTopK ==
    (IsRotation /\ did_rebalance) =>
        top_assets = {d \in Datas :
                        /\ EligibleNow(d)
                        /\ Cardinality({e \in Datas : EligibleNow(e) /\ RankedBefore(e, d)})
                             < cfg.top_n}

\* a tie at the K-th place, decided for the earlier feed
C5_Witness ==
    /\ IsRotation /\ did_rebalance
    /\ \E d, e \in Datas :
         /\ EligibleNow(d) /\ EligibleNow(e) /\ SameScore(d, e)
         /\ FeedIndex(d) < FeedIndex(e)
         /\ d \in top_assets /\ e \notin top_assets

\* what the broker makes of the orders of this rebalance on the next bar
Outcome(iter, px) ==
    LET r == BrokerSettle(RebalanceOrders(cfg.kind, iter, top_assets, pos, hist, value),
                          cash, pos, tr, px)
    IN [cash |-> r.cash, pos |-> r.pos, closed |-> r.closed]

\* C8: the result of a rebalance does not depend on the order in which the
\* target set is iterated when its orders are submitted.
C8_IterationOrderIrrelevant ==
    (IsRotation /\ did_rebalance) =>
        \A i1, i2 \in Iterations(top_assets) : \A px \in [Datas -> OpenPrices] :
            Outcome(i1, px) = Outcome(i2, px)

IsZero(f) == f[1] = 0

NoTradeClosed == pc = "done" /\ trades = <<>>

FlatEquity == \A i \in 1..Len(pnl) : pnl[i] = 0

BuyFor(d) == \E i \in 1..Len(submitted) : submitted[i].data = d /\ submitted[i].size > 0

\* C6 as stated: with A's score always the higher one, B is never bought and
\* never held, whatever the variant and the filter setting.
C6_ScenarioB ==
    /\ ~BuyFor(FeedB)
    /\ pos[FeedB] = 0
    /\ did_rebalance => top_assets \subseteq {FeedA}

\* C6 amended: with the MA filter off and in the dual-momentum variant B is
\* never a target, never bought and never held; with the MA filter on, B is a
\* target (and bought) only at a rebalance where the filter drops A.
C6_ScenarioBFiltered ==
    /\ ~UseMaFilter(cfg.kind) => C6_ScenarioB
    /\ UseMaFilter(cfg.kind) =>
         /\ (did_rebalance /\ FeedB \in top_assets) => ~EligibleNow(FeedA)
         /\ BuyFor(FeedB) => (did_rebalance /\ FeedB \in top_assets)

\* a rebalance that keeps A although B is eligible too
C6_Witness ==
    /\ ~UseMaFilter(cfg.kind) /\ did_rebalance
    /\ EligibleNow(FeedA) /\ EligibleNow(FeedB)
    /\ pos[FeedA] > 0 /\ top_assets = {FeedA}

IsSignal == cfg.kind \in SignalKinds

\* the price the open position of d was entered at: what the opening fill cost
EntryPrice(d) == tr[d].gross \div (pos[d] * Mill)

\* the close of d is at or below entry_price * (1 - stop_loss)
AtStopLoss(d) ==
    /\ IsSignal /\ pos[d] > 0
    /\ 100 * Close(d) <= (100 - cfg.stop_loss) * EntryPrice(d)

CloseFor(d) ==
    \E i \in 1..Len(submitted) : submitted[i] = ClosePosition(d, pos[d], Close(d))

\* C1: in every strategy derived from BaseStrategy, on a bar where the
\* instrument is long and its close is at or below entry_price * (1 - stop_loss),
\* next() submits a close order for it.  (Orders of the previous bar are
\* settled before next() runs, so none is pending for a long instrument.)
C1_StopLossOverride ==
    \A d \in Datas : AtStopLoss(d) => CloseFor(d)

\* C2: after every bar of any strategy, cash plus the positions at the bar's
\* closes equals the portfolio value recorded to the analyzer for the bar.
C2_AccountingIdentity ==
    bar >= 1 =>
        /\ Len(pnl) = bar
        /\ cash + SumOver([d \in Datas |-> pos[d] * Close(d) * Mill], Datas)
             = start_value + pnl[Len(pnl)]

\* a bar with an open position and a value that differs from cash
C2_Witness ==
    /\ bar >= 1 /\ \E d \in Datas : pos[d] > 0
    /\ start_value + pnl[Len(pnl)] # cash
    /\ cfg.kind \in SignalKinds

\* C3: no position is ever negative; every sell a strategy submits is for an
\* instrument that is held and for at most the held size: a close sells
\* exactly the held size, a rotation delta sell strictly less.
C3_NoShort ==
    /\ \A d \in Datas : pos[d] >= 0
    /\ \A i \in 1..Len(submitted) :
         LET o == submitted[i]
         IN o.size < 0 =>
              /\ pos[o.data] > 0
              /\ -o.size <= pos[o.data]
              /\ (IsRotation /\ o.data \in top_assets) => -o.size < pos[o.data]
              /\ ~(IsRotation /\ o.data \in top_assets) => -o.size = pos[o.data]

\* a rotation delta sell was submitted for a held target
C3_Witness ==
    /\ IsRotation /\ did_rebalance
    /\ \E i \in 1..Len(submitted) :
         /\ submitted[i].size < 0
         /\ submitted[i].data \in top_assets
         /\ pos[submitted[i].data] > -submitted[i].size

\* the run so far is Scenario A
OnScenarioA == cfg = ScenarioAConfig /\ hist[Data0] = SubSeq(ScenarioACloses, 1, bar)

\* C7: on Scenario A a buy is submitted on the bar of index 3 (the fast average
\* first exceeds the slow one), a close on the bar of index 5 (it first falls
\* below), no order on any other bar, and the run ends with exactly one trade.
C7_ScenarioA ==
    OnScenarioA =>
        /\ bar = 4 => BuyFor(Data0)
        /\ bar = 6 => CloseFor(Data0)
        /\ bar \notin {4, 6} => submitted = <<>>
        /\ bar = Len(ScenarioACloses) => Len(trades) = 1

\* sum of the net results of the trades that are winners (win) or not
RECURSIVE NetSum(_, _)
NetSum(i, win) ==
    IF i = 0 THEN 0
    ELSE NetSum(i - 1, win)
         + (IF (trades[i].pnlcomm > 0) = win THEN trades[i].pnlcomm ELSE 0)

NoLoser == \A i \in 1..Len(trades) : trades[i].pnlcomm > 0

\* C10: profit_factor is the sum of the positive net results over the absolute
\* sum of the others, and 0 when no trade is a loser or the losers sum to 0.
C10_ProfitFactor ==
    pc = "done" =>
        GetAnalysis.profit_factor =
            IF NoLoser \/ NetSum(Len(trades), FALSE) = 0
            THEN Zero
            ELSE <<NetSum(Len(trades), TRUE), -NetSum(Len(trades), FALSE)>>

\* winners of 300 against losers of -100: 300 / 100
C10_Witness ==
    /\ pc = "done"
    /\ NetSum(Len(trades), TRUE) = 300 /\ NetSum(Len(trades), FALSE) = -100
    /\ GetAnalysis.profit_factor = <<300, 100>>

\* the strategies that exit on a technical signal, a stop-loss or a take-profit
HasExits == cfg.kind \in SignalKinds \cup {"custom"}

\* the technical exit condition of the strategy holds for d on this bar
TechnicalExit(d) ==
    IF cfg.kind \in {"sma", "macd"} THEN crossover[d] < 0
    ELSE IF cfg.kind = "universe" THEN crossover[d] < 0 \/ ~AboveMa(hist[d], bar)
    ELSE IF cfg.kind = "simple_ma" THEN ~AboveMa(hist[d], bar)
    ELSE Close(d) * cfg.ma_period < SmaSum(hist[d], cfg.ma_period)

\* one of the three exit conditions holds for the open position of d
ExitDue(d) ==
    \/ TechnicalExit(d)
    \/ 100 * Close(d) <= (100 - cfg.stop_loss) * EntryPrice(d)
    \/ 100 * Close(d) >= (100 + cfg.take_profit) * EntryPrice(d)

OrdersFor(d) == {i \in 1..Len(submitted) : submitted[i].data = d}

\* C11: on a bar where an instrument is long (the orders of the previous bar
\* are settled, none is pending), at most one order is submitted for it, and a
\* close order is submitted exactly when the technical exit, the stop-loss or
\* the take-profit condition holds, in every strategy of the repository.
C11_ExitPriority ==
    \A d \in Datas :
        (HasExits /\ pos[d] > 0) =>
            /\ Cardinality(OrdersFor(d)) <= 1
            /\ CloseFor(d) <=> ExitDue(d)

\* C12: the first bar rebalances and then every rebalance_days-th bar after
\* it, so consecutive rebalances are exactly rebalance_days bars apart; a bar
\* in between computes no target set and submits no order.
C12_RebalanceGating ==
    [][(IsRotation /\ bar' = bar + 1) =>
          /\ did_rebalance' <=> (bar % cfg.rebalance_days = 0)
          /\ ~did_rebalance' => (submitted' = <<>> /\ top_assets' = top_assets)]_vars

\* a bar between two rebalances, with a position held and a target set kept
C12_Witness ==
    /\ IsRotation /\ ~did_rebalance /\ bar >= 2
    /\ top_assets # {} /\ \E d \in Datas : pos[d] > 0

\* C13: at every rebalance a close order is submitted for every held
\* instrument outside the new target set, and none for an instrument inside it.
C13_CloseDropped ==
    (IsRotation /\ did_rebalance) =>
        \A d \in Datas :
            /\ (pos[d] > 0 /\ d \notin top_assets) => CloseFor(d)
            /\ d \in top_assets =>
                 ~\E i \in OrdersFor(d) : submitted[i].size = -pos[d]

\* a rebalance that drops a held instrument while another one stays a target
C13_Witness ==
    /\ IsRotation /\ did_rebalance
    /\ \E d, e \in Datas :
         /\ pos[d] > 0 /\ d \notin top_assets /\ CloseFor(d)
         /\ pos[e] > 0 /\ e \in top_assets

\* floor(portfolio_value / |target set| / close) for a target d
EqualWeightSize(d) == value \div (Cardinality(top_assets) * Close(d) * Mill)

\* the holding value of d is more than 10% of its target value off it
OutsideDeadband(d) ==
    10 * Abs(Cardinality(top_assets) * pos[d] * Close(d) * Mill - value) > value

\* the one order the claim expects for a target d: none for a size of 0
OrderedTo(d, size) ==
    IF size = pos[d] THEN ~OrderFor(d)
    ELSE /\ Cardinality(OrdersFor(d)) = 1
         /\ \A i \in OrdersFor(d) : submitted[i].size = size - pos[d]

\* the orders of a rebalance bring every target to its equal-weight size
TargetsOrdered ==
    (IsRotation /\ did_rebalance) =>
        \A d \in top_assets :
            /\ pos[d] = 0 => OrderedTo(d, EqualWeightSize(d))
            /\ (pos[d] > 0 /\ OutsideDeadband(d)) => OrderedTo(d, EqualWeightSize(d))

\* once the orders of a rebalance are filled, an ordered target has its size
TargetsFilled ==
    (IsRotation /\ did_rebalance /\ bar' = bar + 1) =>
        \A d \in top_assets : OrderFor(d) => pos'[d] = EqualWeightSize(d)

\* C14: at a rebalance every target gets target_size = floor(value / |targets|
\* / close) from the same portfolio value; a target not yet held is bought for
\* target_size, a held one outside the deadband gets an order for the
\* difference, and after the fills the size of such a target is target_size.
C14_EqualWeightTargets == []TargetsOrdered /\ [][TargetsFilled]_vars

\* d has the history the ranking asks for
EnoughHistory(d) ==
    /\ bar >= cfg.lookback + HistoryMargin
    /\ UseMaFilter(cfg.kind) => bar >= cfg.ma_period

\* the close of d is above its long moving average
AboveLongMa(d) == Close(d) * cfg.ma_period > SmaSum(hist[d], cfg.ma_period)

\* C15: an instrument is ranked, and so can be a target, only if it has
\* lookback + 10 bars of history (and ma_period bars with the MA filter), its
\* close is above its long moving average when the MA filter is on, and its
\* momentum score is strictly positive in the dual-momentum variant.
C15_Eligibility ==
    (IsRotation /\ did_rebalance) =>
        \A d \in top_assets :
            /\ EnoughHistory(d)
            /\ UseMaFilter(cfg.kind) => AboveLongMa(d)
            /\ cfg.kind = "dual" => CloseAgo(hist[d], 0) > CloseAgo(hist[d], cfg.lookback)

\* d passes every filter of the ranking on this bar
Qualifies(d) ==
    /\ EnoughHistory(d)
    /\ UseMaFilter(cfg.kind) => ~(Close(d) * cfg.ma_period < SmaSum(hist[d], cfg.ma_period))
    /\ cfg.kind = "dual" => CloseAgo(hist[d], 0) > CloseAgo(hist[d], cfg.lookback)

Qualified == {d \in Datas : Qualifies(d)}

\* C16: when fewer than top_n instruments are eligible at a rebalance, the
\* target set is exactly the eligible ones and a new target is bought for the
\* value split over them only; when none is eligible the target set is empty,
\* every held position gets a close order and no buy is submitted.
C16_FewerThanK ==
    (IsRotation /\ did_rebalance /\ Cardinality(Qualified) < cfg.top_n) =>
        /\ top_assets = Qualified
        /\ \A d \in Qualified :
             pos[d] = 0 => OrderedTo(d, value \div (Cardinality(Qualified) * Close(d) * Mill))
        /\ Qualified = {} =>
             /\ \A d \in Datas : pos[d] > 0 => CloseFor(d)
             /\ \A d \in Datas : ~BuyFor(d)

\* one instrument of two is eligible: it is bought for the whole value, and
\* the held one that is not eligible is closed
C16_Witness ==
    /\ IsRotation /\ did_rebalance /\ cfg.top_n = 2
    /\ \E d, e \in Datas :
         /\ Qualified = {d} /\ pos[d] = 0 /\ BuyFor(d)
         /\ pos[e] > 0 /\ CloseFor(e)

\* C17. While an order for an instrument is accepted and not yet executed, next()
\* submits no further order for that instrument, whatever the fill delay: no
\* instrument has both an order carried over by the broker and an order
\* submitted on this bar.
C17_PendingOrderGuard ==
    \A i \in 1..Len(pending_orders) : \A j \in 1..Len(submitted) :
        pending_orders[i].data # submitted[j].data

\* the same, for the strategies that track their orders (BaseStrategy.order,
\* orders[d]) only
C17_TrackedGuard == IsSignal => C17_PendingOrderGuard

\* the entry condition of the strategy holds for the flat instrument d on this
\* bar (the orders of the previous bar are settled)
EntrySignal(d) ==
    /\ IsSignal /\ pos[d] = 0
    /\ IF cfg.kind \in {"sma", "macd"} THEN d = Data0 /\ bar > cfg.slow /\ crossover[d] > 0
       ELSE IF cfg.kind = "universe" THEN crossover[d] > 0 /\ AboveMa(hist[d], bar)
       ELSE AboveMa(hist[d], bar) /\ PrevAtOrBelowMa(hist[d], bar)

\* floor(portfolio_value * max_position_fraction / close): the largest number
\* of shares whose worth at the close is within the fraction of the value
EntrySize(d) ==
    CHOOSE n \in 0..cfg.cash :
        /\ n * Close(d) * Mill * 100 <= value * cfg.max_position_size
        /\ (n + 1) * Close(d) * Mill * 100 > value * cfg.max_position_size

\* the pending marker of d: BaseStrategy.order, or orders[d]
Marker(d) == IF cfg.kind \in {"sma", "macd", "multi"} THEN order ELSE orders[d]

\* C18: a flat instrument whose entry condition holds gets one buy of size
\* floor(value * max_position_size / close) when that size is positive; when
\* it is 0 no order is submitted for it and its pending marker is not set.
C18_EntrySizing ==
    \A d \in Datas : EntrySignal(d) =>
        IF EntrySize(d) > 0
        THEN /\ Cardinality(OrdersFor(d)) = 1
             /\ \A i \in OrdersFor(d) : submitted[i].size = EntrySize(d)
             /\ Marker(d)
        ELSE OrdersFor(d) = {} /\ ~Marker(d)

\* an entry signal whose size is 0 on a bar that can still be followed by
\* another one
C18_Witness ==
    \E d \in Datas : EntrySignal(d) /\ EntrySize(d) = 0 /\ bar < cfg.bars

\* the number of bullish and of bearish sub-signals on this bar, the bearish
\* condition of each being the mirror image of its bullish one: fast average
\* above/below slow, RSI below oversold/above overbought, MACD above/below
\* its signal line
BullishVotes ==
    Cardinality({k \in {"trend", "oscillator", "convergence"} :
        \/ k = "trend" /\ SmaDiff(hist[Data0]) > 0
        \/ k = "oscillator" /\ rsi < RsiOversold
        \/ k = "convergence" /\ macd > 0})

BearishVotes ==
    Cardinality({k \in {"trend", "oscillator", "convergence"} :
        \/ k = "trend" /\ SmaDiff(hist[Data0]) < 0
        \/ k = "oscillator" /\ rsi > RsiOverbought
        \/ k = "convergence" /\ macd < 0})

\* the bearish sub-signals as the complement of the bullish condition for
\* the trend and the convergence-divergence signal (a tie is bearish)
BearishVotesWithTies ==
    Cardinality({k \in {"trend", "oscillator", "convergence"} :
        \/ k = "trend" /\ SmaDiff(hist[Data0]) <= 0
        \/ k = "oscillator" /\ rsi > RsiOverbought
        \/ k = "convergence" /\ macd <= 0})

StopOrProfit(d) ==
    \/ 100 * Close(d) <= (100 - cfg.stop_loss) * EntryPrice(d)
    \/ 100 * Close(d) >= (100 + cfg.take_profit) * EntryPrice(d)

IsMulti == cfg.kind = "multi" /\ bar >= cfg.slow

\* C19: MultiStrategyPortfolio submits a buy only on a bar with at least 2
\* bullish sub-signals, and while long it submits a close exactly when at least
\* 2 sub-signals are bearish (each bearish condition the mirror image of the
\* bullish one) or the stop-loss or the take-profit condition holds.
C19_MultiSignalVote ==
    IsMulti =>
        /\ BuyFor(Data0) => BullishVotes >= 2
        /\ pos[Data0] > 0 =>
              (CloseFor(Data0) <=> (BearishVotes >= 2 \/ StopOrProfit(Data0)))

\* the same with a tie counted as bearish
C19_VoteWithTies ==
    IsMulti =>
        /\ BuyFor(Data0) => BullishVotes >= 2
        /\ (pos[Data0] = 0 /\ BullishVotes >= 2) => BuyFor(Data0)
        /\ pos[Data0] > 0 =>
              (CloseFor(Data0) <=> (BearishVotesWithTies >= 2 \/ StopOrProfit(Data0)))

\* the size ordered for d on this bar
SubmittedSize(d) ==
    SumOver([i \in 1..Len(submitted) |->
                IF submitted[i].data = d THEN submitted[i].size ELSE 0],
            1..Len(submitted))

\* C20: no buy submitted by a strategy or rotation variant is rejected for
\* insufficient cash: on the next bar every instrument with a buy order holds
\* the ordered size more than before, and cash is not negative.
C20_SizingWithinCash ==
    [][(bar' = bar + 1 /\ pending_orders = <<>>) =>
          /\ \A d \in Datas : BuyFor(d) => pos'[d] = pos[d] + SubmittedSize(d)
          /\ cash' >= 0]_vars

\* the same for the strategies that size an entry as a fraction of the value
C20_FractionWithinCash ==
    [][(bar' = bar + 1 /\ ~IsRotation /\ cfg.kind # "buyhold") =>
          /\ \A d \in Datas : BuyFor(d) => pos'[d] = pos[d] + SubmittedSize(d)
          /\ cash' >= 0]_vars

\* the broker rejected an order of d on this bar
Rejected(d) ==
    \E i \in 1..Len(notified) : notified[i].data = d /\ notified[i].status = "Margin"

\* no order was executed on this bar
NothingExecuted == \A i \in 1..Len(notified) : notified[i].status # "Completed"

\* C21: when the broker rejects an order of an instrument, the bar is
\* processed like any other, the rejected order changes neither the position
\* nor the open trade of the instrument, nor the cash when nothing else was
\* executed, and the pending marker of the instrument is cleared: it is set
\* after the bar only if next() submitted a new order for the instrument.
C21_RejectedRecoverable ==
    /\ [](\A d \in Datas : Rejected(d) => (Marker(d) => OrderFor(d)))
    /\ [][\A d \in Datas : (bar' = bar + 1 /\ Rejected(d)') =>
             /\ pc' = "run"
             /\ pos'[d] = pos[d] /\ tr'[d] = tr[d]
             /\ NothingExecuted' => cash' = cash]_vars

\* an order of an instrument was rejected and next() submitted a new order
\* for it on the same bar
C21_Witness == \E d \in Datas : Rejected(d) /\ BuyFor(d) /\ Marker(d)

InvalidParams == cfg.top_n <= 0 \/ cfg.rebalance_days <= 0

\* C22: a run configured with a top_n <= 0 or a non-positive rebalance period
\* fails before any bar is processed: no bar is counted and no order is
\* submitted.
C22_ConfigFailFast == InvalidParams => (bar = 0 /\ submitted = <<>>)

\* the weaker statement that such a run submits no order
C22_NoOrder == InvalidParams => submitted = <<>>

\* the largest lookback among the indicators the strategy needs for an
\* instrument
Warmup ==
    IF cfg.kind \in {"momentum", "dual"} THEN cfg.lookback
    ELSE IF cfg.kind = "momentum_ma" THEN Max2(cfg.lookback, cfg.ma_period)
    ELSE IF cfg.kind = "buyhold" THEN 0
    ELSE IF cfg.kind \in {"sma", "macd", "multi"} THEN cfg.slow
    ELSE IF cfg.kind = "universe" THEN Max2(cfg.slow, cfg.ma_period)
    ELSE cfg.ma_period

\* C23: on every bar on which fewer bars have been observed than the largest
\* lookback an instrument's indicators need, no order is submitted for the
\* instrument, also by the strategies whose prenext calls next.
C23_WarmUp == \A d \in Datas : bar < Warmup => ~OrderFor(d)

\* the trading logic ran on a warm-up bar on which the crossover of an
\* instrument was up and its long average not yet ready
C23_Witness ==
    \E d \in Datas : bar < Warmup /\ cfg.kind = "universe" /\ crossover[d] > 0

\* the portfolio value the analyzer observed at step i, and the largest of the
\* start value and the values observed up to step i
ValueAt(i) == start_value + pnl[i]

PeakAt(i) ==
    LET seen == {start_value} \cup {ValueAt(j) : j \in 1..i}
    IN CHOOSE m \in seen : \A x \in seen : m >= x

\* C24: the peak is the maximum of the start value and all values observed so
\* far, and the drawdown recorded at step i is (peak_i - value_i) / peak_i
\* with peak_i including value_i, so that it is never negative.
C24_Drawdown ==
    /\ Len(drawdown) = Len(pnl)
    /\ peak = PeakAt(Len(pnl))
    /\ \A i \in 1..Len(drawdown) :
          /\ drawdown[i] = <<PeakAt(i) - ValueAt(i), PeakAt(i)>>
          /\ drawdown[i][1] >= 0 /\ drawdown[i][2] > 0

\* the value rose above the start value, fell below the peak, and then set a
\* new peak
C24_Witness ==
    \E i, j \in 1..Len(drawdown) :
        /\ i < j /\ drawdown[i][1] > 0 /\ PeakAt(i) > start_value
        /\ drawdown[j][1] = 0 /\ PeakAt(j) > PeakAt(i)

\* the product a * b of two amounts below 10^8 as three digits in base 10^4,
\* most significant first (the product itself does not fit the integers of
\* the checker)
Product(a, b) ==
    LET a1 == a \div 10000
        a0 == a % 10000
        b1 == b \div 10000
        b0 == b % 10000
        low == a0 * b0
        mid == a1 * b0 + a0 * b1 + low \div 10000
    IN <<a1 * b1 + mid \div 10000, mid % 10000, low % 10000>>

\* x >= y for such products
ProductGeq(x, y) ==
    \/ x[1] > y[1]
    \/ x[1] = y[1] /\ x[2] > y[2]
    \/ x[1] = y[1] /\ x[2] = y[2] /\ x[3] >= y[3]

\* the fraction f is at least the fraction g (non-negative numerators,
\* positive denominators)
FracGeq(f, g) == ProductGeq(Product(f[1], g[2]), Product(g[1], f[2]))

\* C25: one drawdown value is recorded per bar, and max_drawdown is one of
\* the recorded values and at least as large as each of them; it is 0 when
\* none was recorded.
C25_MaxDrawdown ==
    /\ Len(drawdown) = bar
    /\ LET m == GetAnalysis.max_drawdown
       IN IF drawdown = <<>> THEN m = Zero
          ELSE /\ \E i \in 1..Len(drawdown) : m = drawdown[i]
               /\ \A i \in 1..Len(drawdown) : FracGeq(m, drawdown[i])

\* the largest drawdown is neither the first nor the last one recorded, and
\* two different positive drawdowns were recorded
C25_Witness ==
    /\ Len(drawdown) >= 3
    /\ drawdown[Len(drawdown)][1] > 0
    /\ LET m == GetAnalysis.max_drawdown
       IN m # drawdown[1] /\ m # drawdown[Len(drawdown)]

\* the instruments whose position is closed by this step
ClosedNow == {d \in Datas : pos[d] # 0 /\ pos'[d] = 0}

NetWinners == {i \in 1..Len(trades) : trades[i].pnlcomm > 0}

\* C26: win_rate is the number of recorded trades with a net pnl above 0
\* over the number of recorded trades, and 0 when there is none; a trade is
\* recorded exactly once, when its position is closed.
C26_WinRate ==
    /\ [](GetAnalysis.win_rate =
            IF trades = <<>> THEN Zero ELSE <<Cardinality(NetWinners), Len(trades)>>)
    /\ [][Len(trades') = Len(trades) + Cardinality(ClosedNow)]_vars

\* a run with a winning and a losing closed trade, one of them closed at the
\* price it was opened at
C26_Witness ==
    /\ NetWinners # {} /\ Cardinality(NetWinners) < Len(trades)
    /\ \E i \in 1..Len(trades) : trades[i].pnl = 0

\* the step returns all have the same value: their standard deviation is 0
StdIsZero ==
    \A i \in 1..(Len(pnl) - 2) : pnl[i + 1] - pnl[i] = pnl[i + 2] - pnl[i + 1]

\* C27: sharpe_ratio is the constant 0 whenever fewer than 2 equity points
\* were recorded or the step returns have a standard deviation of 0 (a flat
\* curve, a single step return); otherwise it is a quotient by a standard
\* deviation that is not 0.
C27_SharpeConventions ==
    LET sh == GetAnalysis.sharpe_ratio
    IN /\ (Len(pnl) < 2 \/ StdIsZero) => sh = [mean |-> 0, std_positive |-> FALSE]
       /\ sh.std_positive => ~StdIsZero
       /\ start_value > 0

\* two equity points and one step return that is not 0
C27_Witness == Len(pnl) = 2 /\ pnl[1] # pnl[2]

\* the (run output, label) pairs of a comparison
Pairs ==
    {i \in 1..MaxRuns : i <= Len(results_list) /\ i <= Len(strategy_names)}

\* row k of the comparison is the row of pair i: its label, its final value
\* and its return (end_value - start_value) / start_value * 100
RowOfPair(k, i) ==
    /\ comparison[k].Strategy = strategy_names[i]
    /\ comparison[k].FinalValue = results_list[i].end_value
    /\ comparison[k].Return[1] * results_list[i].start_value =
          (results_list[i].end_value - results_list[i].start_value) * 100
          * comparison[k].Return[2]

\* C28: compare_strategies returns one row per (run output, label) pair, each
\* with the metrics of its run under the label of its run, and every row's
\* return is at least the return of the row after it.
C28_ComparisonMode ==
    pc = "compared" =>
        /\ Len(comparison) = Cardinality(Pairs)
        /\ \E f \in [1..Len(comparison) -> Pairs] :
              /\ \A k, l \in 1..Len(comparison) : k # l => f[k] # f[l]
              /\ \A k \in 1..Len(comparison) : RowOfPair(k, f[k])
        /\ \A k \in 1..(Len(comparison) - 1) :
              comparison[k].Return[1] * comparison[k + 1].Return[2]
                >= comparison[k + 1].Return[1] * comparison[k].Return[2]

\* three runs that were not collected in the order of their returns, two of
\* them with the same return and different final values, and more labels than
\* one
C28_Witness ==
    /\ pc = "compared" /\ Len(comparison) = 3
    /\ comparison # Zipped(results_list, strategy_names)
    /\ comparison[1].Return # comparison[3].Return
    /\ \E k \in 1..2 : /\ comparison[k].Return[1] * comparison[k + 1].Return[2]
                            = comparison[k + 1].Return[1] * comparison[k].Return[2]
                        /\ comparison[k].FinalValue # comparison[k + 1].FinalValue
    /\ comparison[1].Strategy # comparison[2].Strategy

\* a buy for d submitted on the last bar opens a position on the next one
EntryFilled(d) == bar' = bar + 1 /\ BuyFor(d) /\ pos[d] = 0 /\ pos'[d] > 0

\* C29: every order a strategy submits on a bar is filled at that bar's close
\* price, so the price the entry was executed at, which the stop-loss and
\* take-profit checks of BaseStrategy start from, is the close of the bar on
\* which the entry signal fired.
C29_FillPrice ==
    [][\A d \in Datas : EntryFilled(d) =>
          /\ tr'[d].gross = pos'[d] * Close(d) * Mill
          /\ cfg.kind \in {"sma", "macd", "multi"} => buy_price' = Close(d)]_vars

\* the last bar delivered carries a price that is not positive
NonPositivePrice == bar >= 1 /\ \E d \in Datas : Close(d) <= 0

\* C30: a bar series with a non-positive price makes the run abort: once such
\* a bar was delivered no further bar is processed and no metrics record is
\* produced.
C30_DataIntegrityFatal ==
    [][NonPositivePrice => (bar' = bar /\ pc' # "done")]_vars

\* the broker finalized an order of d on this bar (executed or rejected)
Finalized(d) == \E i \in 1..Len(notified) : notified[i].data = d

\* what the strategy records as its pending order for d: self.order, or
\* self.orders[d]
PendingMarker(d) ==
    IF cfg.kind \in {"sma", "macd", "multi", "custom"} THEN order ELSE orders[d]

\* C31: once the broker has finalized the order of an instrument, the pending
\* marker the strategy keeps for it is reset: after a bar on which an order of
\* d was finalized the marker is set only if next() submitted a new order for
\* d on that bar.
C31_MarkerCleared ==
    \A d \in Datas : (Finalized(d) /\ ~OrderFor(d)) => ~PendingMarker(d)

IsUniverse == cfg.kind \in {"universe", "simple_ma"}

\* d is flat with no pending order and buy_prices[d] is set
StaleEntryPrice(d) == ~orders[d] /\ pos[d] = 0 /\ buy_prices[d] # 0

Held == {d \in Datas : pos[d] # 0}

\* C33: on every bar after a rebalance on which no new rebalance is evaluated
\* (the orders of the last rebalance have been settled), every instrument
\* with a non-zero position belongs to the target set of that rebalance and
\* at most top_n instruments are held, for top_n >= 1.
C33_HoldingsAfterRebalance ==
    (IsRotation /\ cfg.top_n >= 1 /\ bar >= 1 /\ ~did_rebalance) =>
        /\ Held \subseteq top_assets
        /\ Cardinality(Held) <= cfg.top_n

\* the rotation left an instrument for another: one trade was closed, one of
\* two instruments is held and the other one could have been
C33_Witness ==
    /\ IsRotation /\ cfg.top_n = 1 /\ ~did_rebalance
    /\ Len(trades) >= 1
    /\ Cardinality(Held) = 1

\* the bars since the last bar of the series 1, 1 + P, 1 + 2P, ...
SinceScheduled == (bar - 1) % cfg.rebalance_days

\* C34: the rebalance schedule of the rotation strategies is a function of
\* the bar count alone: after bar n a rebalance was evaluated exactly when n
\* is one of 1, 1 + P, 1 + 2P, ..., and the next one is armed for P bars after
\* the last of these, whether or not an instrument was eligible or an order
\* was submitted.
C34_ScheduleByBarCount ==
    (IsRotation /\ bar >= 1) =>
        /\ day_counter = bar
        /\ did_rebalance <=> SinceScheduled = 0
        /\ rebalance_day = bar - SinceScheduled + cfg.rebalance_days

\* a rebalance evaluated on bar 1 + P after one that found no instrument
\* eligible, during the warm-up, itself with no target and no order
C34_Witness ==
    /\ IsRotation /\ cfg.rebalance_days > 1
    /\ bar = 1 + cfg.rebalance_days /\ did_rebalance
    /\ top_assets = {} /\ submitted = <<>>
    /\ \A d \in Datas : pos[d] = 0

\* C35: on any bar, every strategy submits at most one order for a given
\* instrument: no two orders submitted on a bar are for the same instrument.
C35_OneOrderPerInstrument ==
    \A i, j \in 1..Len(submitted) : submitted[i].data = submitted[j].data => i = j

\* a rebalance that closes a dropped instrument and orders a target
C35_Witness ==
    /\ IsRotation /\ did_rebalance
    /\ \E d, e \in Datas :
         /\ d \notin top_assets /\ CloseFor(d)
         /\ e \in top_assets /\ OrderFor(e)

\* the closed trades with a positive net result, and the others
Winners == {i \in 1..Len(trades) : trades[i].pnlcomm > 0}
NotWinners == {i \in 1..Len(trades) : trades[i].pnlcomm <= 0}

\* C36: in every metrics record winning_trades + losing_trades =
\* total_trades; winning_trades counts the closed trades with a positive net
\* result and losing_trades all the others, a net result of exactly 0
\* included; the win rate lies between 0 and 1.
C36_TradePartition ==
    LET a == GetAnalysis
    IN /\ a.winning_trades + a.losing_trades = a.total_trades
       /\ a.total_trades = Len(trades)
       /\ a.winning_trades = Cardinality(Winners)
       /\ a.losing_trades = Cardinality(NotWinners)
       /\ 0 <= a.win_rate[1] /\ a.win_rate[1] <= a.win_rate[2]

\* a winner, a loser and a trade that closed at exactly 0
C36_Witness ==
    /\ pc = "done" /\ Len(trades) = 3
    /\ \E i, j, k \in 1..Len(trades) :
         trades[i].pnlcomm > 0 /\ trades[j].pnlcomm < 0 /\ trades[k].pnlcomm = 0

\* C37: when several feeds are added to one run of a strategies.py strategy,
\* every order is for the feed added first and the position of every other
\* feed is 0 throughout the run.
C37_FirstFeedOnly ==
    /\ \A i \in 1..Len(submitted) : submitted[i].data = DataOrder[1]
    /\ \A k \in 2..Len(DataOrder) : pos[DataOrder[k]] = 0

\* the first feed is held and ordered while the second one, flat, closes at
\* another price than the first
C37_Witness ==
    /\ pos[DataOrder[1]] > 0 /\ OrderFor(DataOrder[1])
    /\ Close(DataOrder[2]) # Close(DataOrder[1])
    /\ cfg.kind = "multi"

\* s is a prefix of t
IsPrefix(s, t) == Len(s) <= Len(t) /\ \A i \in 1..Len(s) : s[i] = t[i]

\* C38: run() on an engine whose simulator was never set up raises ValueError
\* and leaves results unset; get_metrics() and print_metrics() raise
\* ValueError while results is unset; add_data and add_strategy set the
\* simulator up only when there is none, so every feed and strategy added
\* before the call is still there after it.
C38_EngineLifecycle ==
    /\ []((called = "run" /\ cerebro = None) => (raised = "ValueError" /\ results = None))
    /\ []((called \in {"get_metrics", "print_metrics"} /\ results = None)
            => raised = "ValueError")
    /\ [][(called' \in {"add_data", "add_strategy"} /\ cerebro # None) =>
             /\ IsPrefix(cerebro[1].feeds, cerebro'[1].feeds)
             /\ IsPrefix(cerebro[1].strats, cerebro'[1].strats)
             /\ Len(cerebro'[1].feeds) + Len(cerebro'[1].strats)
                  = Len(cerebro[1].feeds) + Len(cerebro[1].strats) + 1]_vars

\* a second feed added to an engine that holds a feed and a strategy and
\* has not run yet
C38_Witness ==
    /\ called = "add_data" /\ results = None
    /\ cerebro # None /\ Len(cerebro[1].feeds) = 2 /\ Len(cerebro[1].strats) = 1

====
